---- MODULE Spec2Model ----
(***************************************************************************)
(* PD-derivatives engine of vgprandomideas/Prediction-Markets.             *)
(*                                                                         *)
(* Two front ends carry the same engine: the React app (pdengine.js) and   *)
(* the Streamlit app (BUBE_Polymarket).  The variable app says which one   *)
(* a behaviour runs; it is chosen once, at start-up.                       *)
(*                                                                         *)
(* Numbers.  Both programs compute in IEEE-754 doubles, and so do the      *)
(* pricing functions here (see "Doubles" below).  The state holds each     *)
(* number in decimal:                                                      *)
(*  - a probability is an integer number of hundredths (0.41 is 41, 1.0 is *)
(*    100); it stands for the double nearest to it, which is what parsing  *)
(*    the provider's text, the input field, the slider or a literal gives; *)
(*  - a margin percentage is an integer number of percent (the JS field    *)
(*    imPct holds 10 for 10%; the Python field im_pct holds 0.10 and is    *)
(*    kept here as 10);                                                    *)
(*  - notional and imAmount are whole numbers of currency units: the       *)
(*    notionals and margins explored make the double of imAmount a whole   *)
(*    number;                                                              *)
(*  - pnl and equity are the doubles the program holds as its ledger shows *)
(*    them, in whole units: Math.round in the React application (a half    *)
(*    goes up), "{:,.0f}" in the Streamlit application (a half goes to the *)
(*    even number).  The program never reads them back: each pass          *)
(*    prices a position anew from notional, entryP, imAmount and the       *)
(*    market's probability, and the liquidation test is made on the        *)
(*    doubles of that pass.                                                *)
(***************************************************************************)
EXTENDS Integers, Sequences, FiniteSets, Bags, TLC

VARIABLES
    app,            \* "js" | "py" | "calc" | "fetch": which program this behaviour runs
    loaded,         \* the start-up fetch (JS load() / Python init_state) is over
    markets,        \* JS useState markets / st.session_state.markets, in order
    positions,      \* JS useState positions / st.session_state.positions
    effectPending,  \* JS: markets changed and the recompute effect has not run yet
    notice,         \* JS useState marketError / the st.error, st.warning or
                    \* st.success message of the last Streamlit run
    calc,           \* scratch record of the pure-function specifications
    inflight,       \* JS: the refreshes whose fetch has not been answered yet,
                    \* each with what its callbacks read of the adminMarket
                    \* they have captured
    users           \* Python: the names of st.session_state.users, in order; a
                    \* user's id is its place in the list

vars ==
    <<app, loaded, markets, positions, effectPending, notice, calc, inflight, users>>

(***************************************************************************)
(* Bounds.                                                                 *)
(***************************************************************************)
MaxPositions == 1      \* positions opened in one behaviour
MaxBeside == 2         \* positions opened in one behaviour of IsolationSpec
MaxInFlight == 1       \* refreshes in flight at the same time
MaxUsers == 2          \* users of one session

(***************************************************************************)
(* Program constants.                                                      *)
(***************************************************************************)
null == -1                       \* outcome: null / None
JsLoadMax == 15                  \* fetchPolymarketMarkets(15) on mount
JsRefreshMax == 50               \* fetchPolymarketMarkets(50) on refresh
PyLoadMax == 10                  \* fetch_polymarket_markets(max_markets=10)
PyRefreshMax == 200              \* fetch_polymarket_markets(max_markets=200)

Min(a, b) == IF a <= b THEN a ELSE b
Max(a, b) == IF a >= b THEN a ELSE b

(***************************************************************************)
(* Doubles.  A double is kept as sign, odd integer mantissa m < 2^53 and   *)
(* exponent e, its value being m * 2^e (zero has the empty mantissa); two  *)
(* doubles are equal exactly when their records are.  The mantissa is a    *)
(* natural number in base 2^15, least significant digit first, so that no  *)
(* intermediate result exceeds the host integers.  Every operation rounds  *)
(* its exact result to the nearest double, ties to even, as IEEE-754       *)
(* binary64 does; subnormals, infinities and NaN are out of reach of the   *)
(* amounts and probabilities explored.                                     *)
(***************************************************************************)
Radix == 2^15

RECURSIVE natDigits(_)
natDigits(n) == IF n = 0 THEN <<>> ELSE <<n % Radix>> \o natDigits(n \div Radix)

RECURSIVE digitsNat(_)
digitsNat(a) == IF a = <<>> THEN 0 ELSE a[1] + Radix * digitsNat(Tail(a))

RECURSIVE trim(_)
trim(a) ==
    IF a # <<>> /\ a[Len(a)] = 0 THEN trim(SubSeq(a, 1, Len(a) - 1)) ELSE a

digit(a, i) == IF i <= Len(a) THEN a[i] ELSE 0

RECURSIVE addFrom(_, _, _, _)
addFrom(a, b, i, carry) ==
    IF i > Len(a) /\ i > Len(b)
    THEN IF carry = 0 THEN <<>> ELSE <<carry>>
    ELSE LET s == digit(a, i) + digit(b, i) + carry
         IN  <<s % Radix>> \o addFrom(a, b, i + 1, s \div Radix)

add(a, b) == addFrom(a, b, 1, 0)

\* a - b for a >= b.
RECURSIVE subFrom(_, _, _, _)
subFrom(a, b, i, borrow) ==
    IF i > Len(a) THEN <<>>
    ELSE LET d == digit(a, i) - digit(b, i) - borrow
         IN  <<(d + Radix) % Radix>> \o subFrom(a, b, i + 1, IF d < 0 THEN 1 ELSE 0)

sub(a, b) == trim(subFrom(a, b, 1, 0))

RECURSIVE cmpFrom(_, _, _)
cmpFrom(a, b, i) ==
    IF i = 0 THEN 0
    ELSE IF a[i] # b[i] THEN (IF a[i] < b[i] THEN -1 ELSE 1)
    ELSE cmpFrom(a, b, i - 1)

\* -1, 0 or 1 as a is less than, equal to or greater than b.
cmp(a, b) ==
    IF Len(a) # Len(b) THEN (IF Len(a) < Len(b) THEN -1 ELSE 1)
    ELSE cmpFrom(a, b, Len(a))

RECURSIVE mulSmallFrom(_, _, _, _)
mulSmallFrom(a, k, i, carry) ==
    IF i > Len(a)
    THEN IF carry = 0 THEN <<>> ELSE <<carry>>
    ELSE LET p == a[i] * k + carry
         IN  <<p % Radix>> \o mulSmallFrom(a, k, i + 1, p \div Radix)

\* a * k for 0 <= k <= Radix.
mulSmall(a, k) == IF k = 0 THEN <<>> ELSE mulSmallFrom(a, k, 1, 0)

RECURSIVE mul(_, _)
mul(a, b) ==
    IF a = <<>> \/ b = <<>> THEN <<>>
    ELSE LET rest == mul(a, Tail(b))
         IN  add(mulSmall(a, b[1]), IF rest = <<>> THEN <<>> ELSE <<0>> \o rest)

RECURSIVE divSmallFrom(_, _, _, _)
divSmallFrom(a, k, i, rem) ==
    IF i = 0 THEN [q |-> <<>>, r |-> rem]
    ELSE LET cur == rem * Radix + a[i]
             rest == divSmallFrom(a, k, i - 1, cur % k)
         IN  [q |-> Append(rest.q, cur \div k), r |-> rest.r]

\* Quotient and remainder of a by k, for 0 < k <= Radix.
divTrim(d) == [q |-> trim(d.q), r |-> d.r]

divSmall(a, k) == divTrim(divSmallFrom(a, k, Len(a), 0))

\* a * 2^n and the integer part of a / 2^n.
shl(a, n) ==
    IF a = <<>> THEN <<>>
    ELSE [i \in 1..(n \div 15) |-> 0] \o mulSmall(a, 2^(n % 15))

shr(a, n) ==
    IF n \div 15 >= Len(a) THEN <<>>
    ELSE divSmall(SubSeq(a, (n \div 15) + 1, Len(a)), 2^(n % 15)).q

RECURSIVE smallBitLen(_)
smallBitLen(n) == IF n = 0 THEN 0 ELSE 1 + smallBitLen(n \div 2)

bitLen(a) == IF a = <<>> THEN 0 ELSE 15 * (Len(a) - 1) + smallBitLen(a[Len(a)])

isOdd(a) == a # <<>> /\ a[1] % 2 = 1

Zero == [neg |-> FALSE, m |-> <<>>, e |-> 0]

\* The record of (-1)^neg * m * 2^e, for any natural m below 2^54.
RECURSIVE canon(_, _, _)
canon(neg, m, e) ==
    IF m = <<>> THEN Zero
    ELSE IF m[1] = 0 THEN canon(neg, Tail(m), e + 15)
    ELSE IF m[1] % 2 = 0 THEN canon(neg, shr(m, 1), e + 1)
    ELSE [neg |-> neg, m |-> m, e |-> e]

\* The integer nearest to m / 2^d (d > 0), ties to even.
\* q is the integer part of the quotient and c compares the remainder with a
\* half.
roundUp(q, c) == IF c > 0 \/ (c = 0 /\ isOdd(q)) THEN add(q, <<1>>) ELSE q

nearestFrom(q, m, d) == roundUp(q, cmp(sub(m, shl(q, d)), shl(<<1>>, d - 1)))

nearest(m, d) == nearestFrom(shr(m, d), m, d)

\* The double nearest to (-1)^neg * m * 2^e, for any natural m.
\* drop is the number of bits m has beyond 53.
roundBy(neg, m, e, drop) ==
    canon(neg, IF drop <= 0 THEN m ELSE nearest(m, drop),
               IF drop <= 0 THEN e ELSE e + drop)

round(neg, m, e) == roundBy(neg, m, e, bitLen(m) - 53)

\* The double of an integer.
fromInt(n) == canon(n < 0, natDigits(IF n < 0 THEN -n ELSE n), 0)

fneg(x) == IF x.m = <<>> THEN x ELSE [x EXCEPT !.neg = ~x.neg]

\* x + y
\* The sum of two mantissas at the same exponent e; c compares them.
faddAligned(xneg, mx, yneg, my, e, c) ==
    round(IF xneg = yneg \/ c >= 0 THEN xneg ELSE yneg,
          IF xneg = yneg THEN add(mx, my)
          ELSE IF c >= 0 THEN sub(mx, my) ELSE sub(my, mx),
          e)

faddShifted(xneg, mx, yneg, my, e) ==
    faddAligned(xneg, mx, yneg, my, e, cmp(mx, my))

faddAt(x, y, e) ==
    faddShifted(x.neg, shl(x.m, x.e - e), y.neg, shl(y.m, y.e - e), e)

fadd(x, y) ==
    IF x.m = <<>> THEN y
    ELSE IF y.m = <<>> THEN x
    ELSE faddAt(x, y, Min(x.e, y.e))

\* x - y
fsub(x, y) == fadd(x, fneg(y))

\* x * y
fmul(x, y) == round(x.neg # y.neg, mul(x.m, y.m), x.e + y.e)

\* x / k for an integer 0 < k <= Radix: the quotient is taken to 70 binary
\* places, with one more digit that says whether anything is left.
fdivFrom(x, d) ==
    round(x.neg, add(shl(d.q, 1), IF d.r = 0 THEN <<>> ELSE <<1>>), x.e - 71)

fdivSmall(x, k) ==
    IF x.m = <<>> THEN Zero ELSE fdivFrom(x, divSmall(shl(x.m, 70), k))

\* x < y, x <= y
isNegative(d) == d.m # <<>> /\ d.neg
flt(x, y) == isNegative(fsub(x, y))
notPositive(d) == d.m = <<>> \/ d.neg
fle(x, y) == notPositive(fsub(x, y))

\* The state keeps an amount (margin, pnl, equity) as the whole number the
\* ledger of the application shows for it.
signed(neg, n) == IF neg THEN -n ELSE n

\* Math.round(x): the whole number nearest to x, the one toward +Infinity
\* when x lies half way between two (c compares the fraction with one half).
Math_roundFrom(neg, q, c) ==
    signed(neg, digitsNat(IF c > 0 \/ (c = 0 /\ ~neg) THEN add(q, <<1>>) ELSE q))

Math_round(x) ==
    IF x.e >= 0 THEN signed(x.neg, digitsNat(shl(x.m, x.e)))
    ELSE Math_roundFrom(x.neg, shr(x.m, -x.e),
                        cmp(sub(x.m, shl(shr(x.m, -x.e), -x.e)),
                            shl(<<1>>, -x.e - 1)))

\* "{:,.0f}".format(x): the whole number nearest to x, the even one when x
\* lies half way between two.
format_0f(x) ==
    signed(x.neg, digitsNat(IF x.e >= 0 THEN shl(x.m, x.e)
                            ELSE nearest(x.m, -x.e)))

\* The double a probability of the state stands for: the one nearest to
\* k / 100.
hundredths(k) == fdivSmall(fromInt(k), 100)

(***************************************************************************)
(* PD math, JS copy.                                                       *)
(***************************************************************************)
\* Mutant: the side is not applied.
pdPnl_SideIgnored(notional, pEntry, pCurrent, side) ==
    LET deltaP == fsub(pCurrent, pEntry)
    IN  fmul(notional, deltaP)

pdPnl(notional, pEntry, pCurrent, side) ==
    LET s == IF side = "LONG" THEN fromInt(1) ELSE fromInt(-1)
        deltaP == fsub(pCurrent, pEntry)
    IN  fmul(fmul(notional, deltaP), s)

computeEquity(imAmount, pnl) == fadd(imAmount, pnl)

LIQ_THRESHOLD_BETA == hundredths(5)

\* Mutant: a position is liquidated only once its equity is negative.
isLiquidation_NegativeOnly(equity, imAmount) ==
    flt(equity, Zero)

isLiquidation(equity, imAmount) ==
    fle(equity, fmul(LIQ_THRESHOLD_BETA, imAmount))

(***************************************************************************)
(* PD math, Python copy.                                                   *)
(***************************************************************************)
\* Python str.  A str whose characters the program looks at (the side given
\* to pd_pnl, the Username of "Add new user") is the sequence of the code
\* points of its characters; codePoints gives that sequence for a literal of
\* printable ASCII characters (code points 32..126; the grave accent, 96,
\* cannot be written in a literal).
PrintableTo95 ==
    " !\"#$%&'()*+,-./0123456789:;<=>?@ABCDEFGHIJKLMNOPQRSTUVWXYZ[\\]^_"

PrintableFrom97 == "abcdefghijklmnopqrstuvwxyz{|}~"

ord(c) ==
    IF \E i \in 1..Len(PrintableFrom97) : SubSeq(PrintableFrom97, i, i) = c
    THEN 96 + (CHOOSE i \in 1..Len(PrintableFrom97) : SubSeq(PrintableFrom97, i, i) = c)
    ELSE 31 + (CHOOSE i \in 1..Len(PrintableTo95) : SubSeq(PrintableTo95, i, i) = c)

codePoints(literal) ==
    [i \in 1..Len(literal) |-> ord(SubSeq(literal, i, i))]

\* str.upper() maps every character to its upper case of the Unicode
\* character database (version 14.0 in CPython 3.11) and leaves the others.
\* UpperRuns holds the characters whose upper case is one character:
\* <<first, last, step, offset>> stands for the characters first, first +
\* step, ..., last, each mapped to itself plus offset.  UpperSpecial holds the
\* characters whose upper case is longer (sharp s becomes SS).
UpperRuns ==
    {
      <<97, 122, 1, -32>>, <<181, 181, 1, 743>>, <<224, 246, 1, -32>>,
      <<248, 254, 1, -32>>, <<255, 255, 1, 121>>, <<257, 303, 2, -1>>,
      <<305, 305, 1, -232>>, <<307, 311, 2, -1>>, <<314, 328, 2, -1>>,
      <<331, 375, 2, -1>>, <<378, 382, 2, -1>>, <<383, 383, 1, -300>>,
      <<384, 384, 1, 195>>, <<387, 389, 2, -1>>, <<392, 392, 1, -1>>,
      <<396, 396, 1, -1>>, <<402, 402, 1, -1>>, <<405, 405, 1, 97>>,
      <<409, 409, 1, -1>>, <<410, 410, 1, 163>>, <<414, 414, 1, 130>>,
      <<417, 421, 2, -1>>, <<424, 424, 1, -1>>, <<429, 429, 1, -1>>,
      <<432, 432, 1, -1>>, <<436, 438, 2, -1>>, <<441, 441, 1, -1>>,
      <<445, 445, 1, -1>>, <<447, 447, 1, 56>>, <<453, 453, 1, -1>>,
      <<454, 454, 1, -2>>, <<456, 456, 1, -1>>, <<457, 457, 1, -2>>,
      <<459, 459, 1, -1>>, <<460, 460, 1, -2>>, <<462, 476, 2, -1>>,
      <<477, 477, 1, -79>>, <<479, 495, 2, -1>>, <<498, 498, 1, -1>>,
      <<499, 499, 1, -2>>, <<501, 501, 1, -1>>, <<505, 543, 2, -1>>,
      <<547, 563, 2, -1>>, <<572, 572, 1, -1>>, <<575, 576, 1, 10815>>,
      <<578, 578, 1, -1>>, <<583, 591, 2, -1>>, <<592, 592, 1, 10783>>,
      <<593, 593, 1, 10780>>, <<594, 594, 1, 10782>>, <<595, 595, 1, -210>>,
      <<596, 596, 1, -206>>, <<598, 599, 1, -205>>, <<601, 601, 1, -202>>,
      <<603, 603, 1, -203>>, <<604, 604, 1, 42319>>, <<608, 608, 1, -205>>,
      <<609, 609, 1, 42315>>, <<611, 611, 1, -207>>, <<613, 613, 1, 42280>>,
      <<614, 614, 1, 42308>>, <<616, 616, 1, -209>>, <<617, 617, 1, -211>>,
      <<618, 618, 1, 42308>>, <<619, 619, 1, 10743>>, <<620, 620, 1, 42305>>,
      <<623, 623, 1, -211>>, <<625, 625, 1, 10749>>, <<626, 626, 1, -213>>,
      <<629, 629, 1, -214>>, <<637, 637, 1, 10727>>, <<640, 640, 1, -218>>,
      <<642, 642, 1, 42307>>, <<643, 643, 1, -218>>, <<647, 647, 1, 42282>>,
      <<648, 648, 1, -218>>, <<649, 649, 1, -69>>, <<650, 651, 1, -217>>,
      <<652, 652, 1, -71>>, <<658, 658, 1, -219>>, <<669, 669, 1, 42261>>,
      <<670, 670, 1, 42258>>, <<837, 837, 1, 84>>, <<881, 883, 2, -1>>,
      <<887, 887, 1, -1>>, <<891, 893, 1, 130>>, <<940, 940, 1, -38>>,
      <<941, 943, 1, -37>>, <<945, 961, 1, -32>>, <<962, 962, 1, -31>>,
      <<963, 971, 1, -32>>, <<972, 972, 1, -64>>, <<973, 974, 1, -63>>,
      <<976, 976, 1, -62>>, <<977, 977, 1, -57>>, <<981, 981, 1, -47>>,
      <<982, 982, 1, -54>>, <<983, 983, 1, -8>>, <<985, 1007, 2, -1>>,
      <<1008, 1008, 1, -86>>, <<1009, 1009, 1, -80>>, <<1010, 1010, 1, 7>>,
      <<1011, 1011, 1, -116>>, <<1013, 1013, 1, -96>>, <<1016, 1016, 1, -1>>,
      <<1019, 1019, 1, -1>>, <<1072, 1103, 1, -32>>, <<1104, 1119, 1, -80>>,
      <<1121, 1153, 2, -1>>, <<1163, 1215, 2, -1>>, <<1218, 1230, 2, -1>>,
      <<1231, 1231, 1, -15>>, <<1233, 1327, 2, -1>>, <<1377, 1414, 1, -48>>,
      <<4304, 4346, 1, 3008>>, <<4349, 4351, 1, 3008>>,
      <<5112, 5117, 1, -8>>, <<7296, 7296, 1, -6254>>,
      <<7297, 7297, 1, -6253>>, <<7298, 7298, 1, -6244>>,
      <<7299, 7300, 1, -6242>>, <<7301, 7301, 1, -6243>>,
      <<7302, 7302, 1, -6236>>, <<7303, 7303, 1, -6181>>,
      <<7304, 7304, 1, 35266>>, <<7545, 7545, 1, 35332>>,
      <<7549, 7549, 1, 3814>>, <<7566, 7566, 1, 35384>>,
      <<7681, 7829, 2, -1>>, <<7835, 7835, 1, -59>>, <<7841, 7935, 2, -1>>,
      <<7936, 7943, 1, 8>>, <<7952, 7957, 1, 8>>, <<7968, 7975, 1, 8>>,
      <<7984, 7991, 1, 8>>, <<8000, 8005, 1, 8>>, <<8017, 8023, 2, 8>>,
      <<8032, 8039, 1, 8>>, <<8048, 8049, 1, 74>>, <<8050, 8053, 1, 86>>,
      <<8054, 8055, 1, 100>>, <<8056, 8057, 1, 128>>, <<8058, 8059, 1, 112>>,
      <<8060, 8061, 1, 126>>, <<8112, 8113, 1, 8>>, <<8126, 8126, 1, -7205>>,
      <<8144, 8145, 1, 8>>, <<8160, 8161, 1, 8>>, <<8165, 8165, 1, 7>>,
      <<8526, 8526, 1, -28>>, <<8560, 8575, 1, -16>>, <<8580, 8580, 1, -1>>,
      <<9424, 9449, 1, -26>>, <<11312, 11359, 1, -48>>,
      <<11361, 11361, 1, -1>>, <<11365, 11365, 1, -10795>>,
      <<11366, 11366, 1, -10792>>, <<11368, 11372, 2, -1>>,
      <<11379, 11379, 1, -1>>, <<11382, 11382, 1, -1>>,
      <<11393, 11491, 2, -1>>, <<11500, 11502, 2, -1>>,
      <<11507, 11507, 1, -1>>, <<11520, 11557, 1, -7264>>,
      <<11559, 11559, 1, -7264>>, <<11565, 11565, 1, -7264>>,
      <<42561, 42605, 2, -1>>, <<42625, 42651, 2, -1>>,
      <<42787, 42799, 2, -1>>, <<42803, 42863, 2, -1>>,
      <<42874, 42876, 2, -1>>, <<42879, 42887, 2, -1>>,
      <<42892, 42892, 1, -1>>, <<42897, 42899, 2, -1>>,
      <<42900, 42900, 1, 48>>, <<42903, 42921, 2, -1>>,
      <<42933, 42947, 2, -1>>, <<42952, 42954, 2, -1>>,
      <<42961, 42961, 1, -1>>, <<42967, 42969, 2, -1>>,
      <<42998, 42998, 1, -1>>, <<43859, 43859, 1, -928>>,
      <<43888, 43967, 1, -38864>>, <<65345, 65370, 1, -32>>,
      <<66600, 66639, 1, -40>>, <<66776, 66811, 1, -40>>,
      <<66967, 67003, 2, -39>>, <<66968, 66976, 2, -39>>,
      <<66980, 66992, 2, -39>>, <<66996, 67000, 2, -39>>,
      <<67004, 67004, 1, -39>>, <<68800, 68850, 1, -64>>,
      <<71872, 71903, 1, -32>>, <<93792, 93823, 1, -32>>,
      <<125218, 125251, 1, -34>> }

UpperSpecial ==
    {
      <<223, <<83, 83>>>>, <<329, <<700, 78>>>>, <<496, <<74, 780>>>>,
      <<912, <<921, 776, 769>>>>, <<944, <<933, 776, 769>>>>,
      <<1415, <<1333, 1362>>>>, <<7830, <<72, 817>>>>, <<7831, <<84, 776>>>>,
      <<7832, <<87, 778>>>>, <<7833, <<89, 778>>>>, <<7834, <<65, 702>>>>,
      <<8016, <<933, 787>>>>, <<8018, <<933, 787, 768>>>>,
      <<8020, <<933, 787, 769>>>>, <<8022, <<933, 787, 834>>>>,
      <<8064, <<7944, 921>>>>, <<8065, <<7945, 921>>>>,
      <<8066, <<7946, 921>>>>, <<8067, <<7947, 921>>>>,
      <<8068, <<7948, 921>>>>, <<8069, <<7949, 921>>>>,
      <<8070, <<7950, 921>>>>, <<8071, <<7951, 921>>>>,
      <<8072, <<7944, 921>>>>, <<8073, <<7945, 921>>>>,
      <<8074, <<7946, 921>>>>, <<8075, <<7947, 921>>>>,
      <<8076, <<7948, 921>>>>, <<8077, <<7949, 921>>>>,
      <<8078, <<7950, 921>>>>, <<8079, <<7951, 921>>>>,
      <<8080, <<7976, 921>>>>, <<8081, <<7977, 921>>>>,
      <<8082, <<7978, 921>>>>, <<8083, <<7979, 921>>>>,
      <<8084, <<7980, 921>>>>, <<8085, <<7981, 921>>>>,
      <<8086, <<7982, 921>>>>, <<8087, <<7983, 921>>>>,
      <<8088, <<7976, 921>>>>, <<8089, <<7977, 921>>>>,
      <<8090, <<7978, 921>>>>, <<8091, <<7979, 921>>>>,
      <<8092, <<7980, 921>>>>, <<8093, <<7981, 921>>>>,
      <<8094, <<7982, 921>>>>, <<8095, <<7983, 921>>>>,
      <<8096, <<8040, 921>>>>, <<8097, <<8041, 921>>>>,
      <<8098, <<8042, 921>>>>, <<8099, <<8043, 921>>>>,
      <<8100, <<8044, 921>>>>, <<8101, <<8045, 921>>>>,
      <<8102, <<8046, 921>>>>, <<8103, <<8047, 921>>>>,
      <<8104, <<8040, 921>>>>, <<8105, <<8041, 921>>>>,
      <<8106, <<8042, 921>>>>, <<8107, <<8043, 921>>>>,
      <<8108, <<8044, 921>>>>, <<8109, <<8045, 921>>>>,
      <<8110, <<8046, 921>>>>, <<8111, <<8047, 921>>>>,
      <<8114, <<8122, 921>>>>, <<8115, <<913, 921>>>>,
      <<8116, <<902, 921>>>>, <<8118, <<913, 834>>>>,
      <<8119, <<913, 834, 921>>>>, <<8124, <<913, 921>>>>,
      <<8130, <<8138, 921>>>>, <<8131, <<919, 921>>>>,
      <<8132, <<905, 921>>>>, <<8134, <<919, 834>>>>,
      <<8135, <<919, 834, 921>>>>, <<8140, <<919, 921>>>>,
      <<8146, <<921, 776, 768>>>>, <<8147, <<921, 776, 769>>>>,
      <<8150, <<921, 834>>>>, <<8151, <<921, 776, 834>>>>,
      <<8162, <<933, 776, 768>>>>, <<8163, <<933, 776, 769>>>>,
      <<8164, <<929, 787>>>>, <<8166, <<933, 834>>>>,
      <<8167, <<933, 776, 834>>>>, <<8178, <<8186, 921>>>>,
      <<8179, <<937, 921>>>>, <<8180, <<911, 921>>>>, <<8182, <<937, 834>>>>,
      <<8183, <<937, 834, 921>>>>, <<8188, <<937, 921>>>>,
      <<64256, <<70, 70>>>>, <<64257, <<70, 73>>>>, <<64258, <<70, 76>>>>,
      <<64259, <<70, 70, 73>>>>, <<64260, <<70, 70, 76>>>>,
      <<64261, <<83, 84>>>>, <<64262, <<83, 84>>>>,
      <<64275, <<1348, 1350>>>>, <<64276, <<1348, 1333>>>>,
      <<64277, <<1348, 1339>>>>, <<64278, <<1358, 1350>>>>,
      <<64279, <<1348, 1341>>>> }

upperChar(c) ==
    IF \E special \in UpperSpecial : special[1] = c
    THEN (CHOOSE special \in UpperSpecial : special[1] = c)[2]
    ELSE IF \E run \in UpperRuns :
               c >= run[1] /\ c <= run[2] /\ (c - run[1]) % run[3] = 0
    THEN <<c + (CHOOSE run \in UpperRuns :
                   c >= run[1] /\ c <= run[2] /\ (c - run[1]) % run[3] = 0)[4]>>
    ELSE <<c>>

RECURSIVE upper(_)
upper(side) ==
    IF Len(side) = 0 THEN <<>>
    ELSE upperChar(Head(side)) \o upper(Tail(side))

pd_pnl(notional, p_entry, p_current, side) ==
    LET s == IF upper(side) = codePoints("LONG") THEN fromInt(1) ELSE fromInt(-1)
        delta_p == fsub(p_current, p_entry)
    IN  fmul(fmul(notional, delta_p), s)

compute_equity(im_amount, pnl) == fadd(im_amount, pnl)

\* Mutant: strict comparison with the threshold.
is_liquidation_Strict(equity, im_amount) ==
    flt(equity, fmul(LIQ_THRESHOLD_BETA, im_amount))

is_liquidation(equity, im_amount) ==
    fle(equity, fmul(LIQ_THRESHOLD_BETA, im_amount))

(***************************************************************************)
(* Provider data.  A JSON-encoded field of a provider candidate is kept by *)
(* what parsing it yields: the field is absent, it does not parse, it      *)
(* parses to an array, to a number, or to a string (kept as the sequence   *)
(* of the code points of its characters).                                  *)
(***************************************************************************)
Missing == [kind |-> "missing", items |-> <<>>]
Unparsable == [kind |-> "unparsable", items |-> <<>>]
Arr(s) == [kind |-> "array", items |-> s]
Num(n) == [kind |-> "scalar", items |-> <<n>>]
Scalar == Num(5)
Str(s) == [kind |-> "string", items |-> s]

Candidate(id, active, closed, outcomes, outcomePrices) ==
    [id |-> id, active |-> active, closed |-> closed,
     outcomes |-> outcomes, outcomePrices |-> outcomePrices]

YesNo == Arr(<<"Yes", "No">>)

\* What the provider answers at some moment: nothing; a three-outcome market
\* followed by markets 1 and 2; market 1 repriced and market 2 closed.
ProviderData ==
    { <<>>,
      << Candidate(3, TRUE, FALSE, Arr(<<"A", "B", "C">>), Arr(<<30, 30, 40>>)),
         Candidate(1, TRUE, FALSE, YesNo, Arr(<<50, 50>>)),
         Candidate(2, TRUE, FALSE, YesNo, Arr(<<62, 38>>)) >>,
      << Candidate(1, TRUE, FALSE, YesNo, Arr(<<40, 60>>)),
         Candidate(2, TRUE, TRUE, YesNo, Arr(<<100, 0>>)) >> }

\* Responses with malformed fields: market 2 without outcomePrices; market 1
\* alone, priced outside [0, 1]; outcomePrices that do not parse, and an empty
\* array; outcomePrices that parse to a string, "1.5" with the Arabic-Indic
\* digit one (U+0661) for its first character, and to the number 5.
FeedData ==
    { << Candidate(1, TRUE, FALSE, YesNo, Arr(<<50, 50>>)),
         Candidate(2, TRUE, FALSE, YesNo, Missing) >>,
      << Candidate(1, TRUE, FALSE, YesNo, Arr(<<150, -50>>)) >>,
      << Candidate(1, TRUE, FALSE, YesNo, Unparsable),
         Candidate(2, TRUE, FALSE, YesNo, Arr(<<>>)) >>,
      << Candidate(2, TRUE, FALSE, YesNo, Str(<<1633, 46, 53>>)),
         Candidate(1, TRUE, FALSE, YesNo, Scalar) >> }

RECURSIVE fetchLoop(_, _, _, _)
fetchLoop(data, i, selected, maxMarkets) ==
    IF i > Len(data) THEN selected
    ELSE LET m == data[i] IN
         IF ~m.active \/ m.closed THEN fetchLoop(data, i + 1, selected, maxMarkets)
         ELSE IF m.outcomes.kind = "unparsable"
              THEN fetchLoop(data, i + 1, selected, maxMarkets)
         ELSE IF m.outcomes.kind # "array" \/ Len(m.outcomes.items) # 2
              THEN fetchLoop(data, i + 1, selected, maxMarkets)
         ELSE IF Len(selected) + 1 >= maxMarkets THEN Append(selected, m)
         ELSE fetchLoop(data, i + 1, Append(selected, m), maxMarkets)

\* The body of fetchPolymarketMarkets after a successful fetch of data.
fetchPolymarketMarkets(data, maxMarkets) == fetchLoop(data, 1, <<>>, maxMarkets)

\* fetchPolymarketMarkets(15) and fetchPolymarketMarkets(50) of every response,
\* computed once.
JsLoadFetch ==
    [data \in ProviderData \cup FeedData |-> fetchPolymarketMarkets(data, JsLoadMax)]
JsRefreshFetch ==
    [data \in ProviderData \cup FeedData |-> fetchPolymarketMarkets(data, JsRefreshMax)]

\* The probability is taken from an array only (Array.isArray); the array's
\* first element is a number or numeric text.
polymarketToBube(m) ==
    LET prices == m.outcomePrices
        pYes == IF prices.kind = "array" /\ Len(prices.items) > 0
                THEN prices.items[1] ELSE 0
    IN  [id |-> <<"poly", m.id>>, source |-> "polymarket", polyId |-> m.id,
         currentP |-> pYes, status |-> "OPEN", outcome |-> null]

(***************************************************************************)
(* Refreshes in flight.  handleRefreshFromPolymarket starts a fetch and    *)
(* returns; the .then or the .catch callback of the fetch runs later, and  *)
(* any handler may run in between.  inflight is the bag of the fetches     *)
(* that have not been answered yet.  The closure of the callbacks holds    *)
(* the adminMarket of the render the click was made in; of that object     *)
(* the callbacks read id and polyId, and these are what the bag keeps.     *)
(***************************************************************************)
Captured(adminMarket) == [id |-> adminMarket.id, polyId |-> adminMarket.polyId]

NoRequest == EmptyBag

(***************************************************************************)
(* Input sets of the handlers.                                             *)
(***************************************************************************)
\* The order form: side, notional, margin percentage.
OrderTickets ==
    { <<"LONG", 1000000, 10>>, <<"SHORT", 500000, 40>>,
      <<"SHORT", 500000, 10>>, <<"LONG", 0, 10>> }

\* The order form of the React application, whose fetches in flight multiply
\* its states: the first and the last of these tickets.
JsOrderTickets == { <<"LONG", 1000000, 10>>, <<"LONG", 0, 10>> }

\* The order form of the specifications that widen the other inputs.
FeedTickets == { <<"LONG", 1000000, 10>> }

\* Numbers outside [0, 1] typed into the manual-probability field.
FeedManualProbs == {-20, 120}

\* What is typed into the manual-probability field (the JS input is free).
ManualProbs == {40, 120}

\* The Python slider only yields values of [0, 1].
SliderProbs == {100}

\* Orders and probabilities that put the equity of a position exactly at 5%
\* of its margin in decimal arithmetic: SHORT 500,000 at 20% margin (100,000)
\* loses 95,000 when the probability rises by 0.19, from 0.62 to 0.81 or from
\* 0.81 to 1.00.
TieTickets == { <<"LONG", 1000000, 10>>, <<"SHORT", 500000, 20>> }
JsTieTickets == { <<"SHORT", 500000, 20>> }
TieManualProbs == {81, 120}
TieSliderProbs == {81, 100}

Outcomes == {0, 1}

\* What is typed into the Username field of "Add new user": nothing, a
\* no-break space between a blank and a line tabulation, a name, and the name
\* between a no-break space and NEL followed by a blank.
NewUserNames ==
    { <<>>, <<32, 160, 11>>, codePoints("trader_2"),
      <<160>> \o codePoints("trader_2") \o <<133, 32>> }

\* The pricing functions applied to one set of arguments: by says which copy
\* ("js", "py") has computed the results, "none" before.
CalcInput(notional, entryP, currentP, imAmount) ==
    [notional |-> notional, entryP |-> entryP, currentP |-> currentP,
     imAmount |-> imAmount, by |-> "none",
     pnlLong |-> 0, pnlShort |-> 0, equityLong |-> 0, equityShort |-> 0,
     opposite |-> FALSE]

IdleCalc == CalcInput(0, 0, 0, 0)

\* Spellings of the side given to pd_pnl; the last one of the short side
\* starts with the long s (383), whose upper case is S.
LongSpellings == { codePoints("LONG"), codePoints("long"), codePoints("lONG") }
ShortSpellings ==
    { codePoints("SHORT"), codePoints("sHoRt"), <<383>> \o codePoints("hort") }

CalcNotionals == {100, 500000, 1000000}
CalcProbs == {0, 31, 40, 41, 50, 100}
CalcMargins == {2, 50000, 100000}

(***************************************************************************)
(* The pricing of a position, computed once for every ticket of the input  *)
(* sets and every probability a market is given in some specification.     *)
(***************************************************************************)
AllTickets == OrderTickets \cup FeedTickets \cup TieTickets
PricedProbs == {0, 40, 41, 50, 62, 81, 100, 150}

\* const imAmount = (notional * imPct) / 100
jsMargin ==
    [t \in AllTickets |->
        Math_round(fdivSmall(fmul(fromInt(t[2]), fromInt(t[3])), 100))]

\* im_pct = im_pct_view / 100.0; im_amount = notional * im_pct
pyMargin ==
    [t \in AllTickets |->
        format_0f(fmul(fromInt(t[2]), fdivSmall(fromInt(t[3]), 100)))]

\* Notional, margin amount, entry probability, probability and side.
PricedArgs ==
    UNION { { <<t[2], im, e, p, t[1]>> :
                im \in {jsMargin[t], pyMargin[t]},
                e \in PricedProbs, p \in PricedProbs } :
            t \in AllTickets }

\* pdPnl, computeEquity and isLiquidation of a position with these fields at
\* probability p: the amounts as the state holds them, and the result of the
\* test on the doubles.
jsPriceOf(pnl, equity, imAmount) ==
    [pnl |-> Math_round(pnl), equity |-> Math_round(equity),
     liquidation |-> isLiquidation(equity, imAmount)]

jsPriceFrom(pnl, imAmount) ==
    jsPriceOf(pnl, computeEquity(imAmount, pnl), imAmount)

jsPrice(notional, imAmount, entryP, p, side) ==
    jsPriceFrom(pdPnl(fromInt(notional), hundredths(entryP), hundredths(p), side),
                fromInt(imAmount))

\* The same of pd_pnl, compute_equity and is_liquidation.
pyPriceOf(pnl, equity, im_amount) ==
    [pnl |-> format_0f(pnl), equity |-> format_0f(equity),
     liquidation |-> is_liquidation(equity, im_amount)]

pyPriceFrom(pnl, im_amount) ==
    pyPriceOf(pnl, compute_equity(im_amount, pnl), im_amount)

pyPrice(notional, imAmount, entryP, p, side) ==
    pyPriceFrom(pd_pnl(fromInt(notional), hundredths(entryP), hundredths(p),
                       codePoints(side)),
                fromInt(imAmount))

jsPriceTable == [x \in PricedArgs |-> jsPrice(x[1], x[2], x[3], x[4], x[5])]
pyPriceTable == [x \in PricedArgs |-> pyPrice(x[1], x[2], x[3], x[4], x[5])]

jsPriced(notional, imAmount, entryP, p, side) ==
    jsPriceTable[<<notional, imAmount, entryP, p, side>>]

pyPriced(notional, imAmount, entryP, p, side) ==
    pyPriceTable[<<notional, imAmount, entryP, p, side>>]

\* markets.find(m => m.id === id): index of the first market with that id, 0 if none.
find(ms, id) ==
    IF \E i \in 1..Len(ms) : ms[i].id = id
    THEN CHOOSE i \in 1..Len(ms) :
            ms[i].id = id /\ \A j \in 1..(i - 1) : ms[j].id # id
    ELSE 0

\* prev.map(f) over a list.
Map(f(_), list) == [i \in 1..Len(list) |-> f(list[i])]

(***************************************************************************)
(* React app.                                                              *)
(***************************************************************************)
\* Mutant: the recompute pass skips SETTLED positions only, so a LIQUIDATED
\* position keeps following the market.
recomputePosition_NoFreeze(ms, pos) ==
    LET k == find(ms, pos.marketId) IN
    IF k = 0 THEN pos
    ELSE IF pos.status = "SETTLED" THEN pos
    ELSE LET m == ms[k]
             priced == jsPriced(pos.notional, pos.imAmount, pos.entryP,
                                  m.currentP, pos.side)
             pnl == priced.pnl
             equity == priced.equity
             updated == [pos EXCEPT !.currentP = m.currentP,
                                    !.pnl = pnl, !.equity = equity]
         IN  IF priced.liquidation
             THEN [updated EXCEPT !.status = "LIQUIDATED"]
             ELSE updated

\* Mutant: the status of every unsettled position follows the liquidation
\* rule in both directions.
recomputePosition_Reopen(ms, pos) ==
    LET k == find(ms, pos.marketId) IN
    IF k = 0 THEN pos
    ELSE IF pos.status = "SETTLED" THEN pos
    ELSE LET m == ms[k]
             priced == jsPriced(pos.notional, pos.imAmount, pos.entryP,
                                  m.currentP, pos.side)
             pnl == priced.pnl
             equity == priced.equity
             updated == [pos EXCEPT !.currentP = m.currentP,
                                    !.pnl = pnl, !.equity = equity]
         IN  IF priced.liquidation
             THEN [updated EXCEPT !.status = "LIQUIDATED"]
             ELSE [updated EXCEPT !.status = "OPEN"]

\* Mutant: the recompute pass marks the position to market: after pricing it,
\* the entry probability becomes the current one.
recomputePosition_Rebase(ms, pos) ==
    LET k == find(ms, pos.marketId) IN
    IF k = 0 THEN pos
    ELSE IF pos.status # "OPEN" THEN pos
    ELSE LET m == ms[k]
             priced == jsPriced(pos.notional, pos.imAmount, pos.entryP,
                                  m.currentP, pos.side)
             pnl == priced.pnl
             equity == priced.equity
             updated == [pos EXCEPT !.currentP = m.currentP, !.entryP = m.currentP,
                                    !.pnl = pnl, !.equity = equity]
         IN  IF priced.liquidation
             THEN [updated EXCEPT !.status = "LIQUIDATED"]
             ELSE updated

\* Mutant: the recompute pass prices the position but does not copy the
\* market's probability into it.
recomputePosition_StaleProbability(ms, pos) ==
    LET k == find(ms, pos.marketId) IN
    IF k = 0 THEN pos
    ELSE IF pos.status # "OPEN" THEN pos
    ELSE LET m == ms[k]
             priced == jsPriced(pos.notional, pos.imAmount, pos.entryP,
                                  m.currentP, pos.side)
             pnl == priced.pnl
             equity == priced.equity
             updated == [pos EXCEPT !.pnl = pnl, !.equity = equity]
         IN  IF priced.liquidation
             THEN [updated EXCEPT !.status = "LIQUIDATED"]
             ELSE updated

\* Mutant: the pass adds the pnl it computes to the pnl the position holds.
recomputePosition_Accumulate(ms, pos) ==
    LET k == find(ms, pos.marketId) IN
    IF k = 0 THEN pos
    ELSE IF pos.status # "OPEN" THEN pos
    ELSE LET m == ms[k]
             priced == jsPriced(pos.notional, pos.imAmount, pos.entryP,
                                  m.currentP, pos.side)
             pnl == pos.pnl + priced.pnl
             equity == pos.imAmount + pnl
             updated == [pos EXCEPT !.currentP = m.currentP,
                                    !.pnl = pnl, !.equity = equity]
         IN  IF isLiquidation(fromInt(equity), fromInt(pos.imAmount))
             THEN [updated EXCEPT !.status = "LIQUIDATED"]
             ELSE updated

\* The body of the updater of the recompute effect, for one position.
\* The object the updater returns for an OPEN position of market m; priced
\* holds the results of pdPnl, computeEquity and isLiquidation.
updatedPosition(pos, m, priced) ==
    LET pnl == priced.pnl
        equity == priced.equity
        updated == [pos EXCEPT !.currentP = m.currentP,
                               !.pnl = pnl, !.equity = equity]
    IN  IF priced.liquidation
        THEN [updated EXCEPT !.status = "LIQUIDATED"]
        ELSE updated

recomputeOpen(pos, m) ==
    updatedPosition(pos, m, jsPriced(pos.notional, pos.imAmount, pos.entryP,
                                     m.currentP, pos.side))

recomputePosition(ms, pos) ==
    LET k == find(ms, pos.marketId) IN
    IF k = 0 THEN pos
    ELSE IF pos.status # "OPEN" THEN pos
    ELSE recomputeOpen(pos, ms[k])

\* useEffect(..., [markets]): runs after the render that follows a change of
\* markets, before the next event is handled.
RecomputeEffect ==
    /\ app = "js"
    /\ effectPending
    /\ positions' = IF Len(markets) = 0 THEN positions
                    ELSE LET f(pos) == recomputePosition(markets, pos)
                         IN  Map(f, positions)
    /\ effectPending' = FALSE
    /\ UNCHANGED <<app, loaded, markets, notice, calc, inflight, users>>

\* load() of the mount effect, fetch answered with data.
Load(data) ==
    /\ app = "js"
    /\ ~loaded
    /\ LET raw == JsLoadFetch[data]
           mapped == Map(polymarketToBube, raw)
       IN  markets' = mapped
    /\ loaded' = TRUE
    /\ effectPending' = TRUE
    /\ notice' = "none"
    /\ UNCHANGED <<app, positions, calc, inflight, users>>

\* load() of the mount effect, fetch failed: the catch branch.
LoadFailed ==
    /\ app = "js"
    /\ ~loaded
    /\ loaded' = TRUE
    /\ notice' = "Could not load Polymarket markets"
    /\ UNCHANGED <<app, markets, positions, effectPending, calc, inflight, users>>

\* Mutant: the order is taken whatever its notional.
handleOpenPosition_NoNotionalCheck(sel, ticket) ==
    LET selectedMarket == markets[sel]
        imAmount == jsMargin[ticket]
        newPos == [id |-> Len(positions) + 1,
                   marketId |-> selectedMarket.id,
                   side |-> ticket[1],
                   notional |-> ticket[2],
                   imPct |-> ticket[3],
                   imAmount |-> imAmount,
                   entryP |-> selectedMarket.currentP,
                   currentP |-> selectedMarket.currentP,
                   pnl |-> 0,
                   equity |-> imAmount,
                   status |-> "OPEN"]
    IN
    /\ app = "js"
    /\ loaded /\ ~effectPending
    /\ sel \in 1..Len(markets)
    /\ positions' = Append(positions, newPos)
    /\ UNCHANGED <<app, loaded, markets, effectPending, notice, calc, inflight, users>>

handleOpenPosition(sel, ticket) ==
    LET side == ticket[1]
        notional == ticket[2]
        imPct == ticket[3]
        selectedMarket == markets[sel]
    IN
    /\ app = "js"
    /\ loaded /\ ~effectPending
    /\ sel \in 1..Len(markets)
    /\ IF notional <= 0
       THEN UNCHANGED positions
       ELSE LET imAmount == jsMargin[ticket]
                entryP == selectedMarket.currentP
                newPos == [id |-> Len(positions) + 1,
                           marketId |-> selectedMarket.id,
                           side |-> side,
                           notional |-> notional,
                           imPct |-> imPct,
                           imAmount |-> imAmount,
                           entryP |-> entryP,
                           currentP |-> entryP,
                           pnl |-> 0,
                           equity |-> imAmount,
                           status |-> "OPEN"]
            IN  positions' = Append(positions, newPos)
    /\ UNCHANGED <<app, loaded, markets, effectPending, notice, calc, inflight, users>>

\* Mutant: the updater does not test the market's id.
handleManualProbApply_AllMarkets(adm, manualProb) ==
    LET p == Min(100, Max(0, manualProb))
        f(m) == [m EXCEPT !.currentP = p]
    IN
    /\ app = "js"
    /\ loaded /\ ~effectPending
    /\ adm \in 1..Len(markets)
    /\ markets' = Map(f, markets)
    /\ effectPending' = TRUE
    /\ UNCHANGED <<app, loaded, positions, notice, calc, inflight, users>>

handleManualProbApply(adm, manualProb) ==
    LET adminMarket == markets[adm]
        p == Min(100, Max(0, manualProb))
        f(m) == IF m.id = adminMarket.id THEN [m EXCEPT !.currentP = p] ELSE m
    IN
    /\ app = "js"
    /\ loaded /\ ~effectPending
    /\ adm \in 1..Len(markets)
    /\ markets' = Map(f, markets)
    /\ effectPending' = TRUE
    /\ UNCHANGED <<app, loaded, positions, notice, calc, inflight, users>>

\* The object the updater below returns for an OPEN position settled at p;
\* priced holds the results of pdPnl and computeEquity.
settledPosition(pos, p, priced) ==
    LET finalPnl == priced.pnl
        equity == priced.equity
    IN  [pos EXCEPT !.currentP = p, !.pnl = finalPnl,
                    !.equity = equity, !.status = "SETTLED"]

\* The settlement of an OPEN position (the last branch of the updater below).
settleOpen(pos, p) ==
    settledPosition(pos, p, jsPriced(pos.notional, pos.imAmount, pos.entryP,
                                     p, pos.side))

\* Mutant: a LIQUIDATED position is left as it is at settlement.
settlePosition_SkipLiquidated(pos, adminId, outcome) ==
    IF pos.marketId # adminId THEN pos
    ELSE IF pos.status # "OPEN" THEN pos
    ELSE settleOpen(pos, outcome * 100)

\* Mutant: no early return for a position that is already SETTLED.
settlePosition_NoSettledGuard(pos, adminId, outcome) ==
    IF pos.marketId # adminId THEN pos
    ELSE IF pos.status = "LIQUIDATED" THEN [pos EXCEPT !.status = "SETTLED"]
    ELSE settleOpen(pos, outcome * 100)

\* Mutant: a LIQUIDATED position is repriced at the outcome like an OPEN one.
settlePosition_RepriceLiquidated(pos, adminId, outcome) ==
    IF pos.marketId # adminId THEN pos
    ELSE IF pos.status = "SETTLED" THEN pos
    ELSE settleOpen(pos, outcome * 100)

\* Mutant: the final pnl is priced at the market's live probability.
settlePosition_LivePrice(pos, adminId, outcome) ==
    IF pos.marketId # adminId THEN pos
    ELSE IF pos.status = "SETTLED" THEN pos
    ELSE IF pos.status = "LIQUIDATED" THEN [pos EXCEPT !.status = "SETTLED"]
    ELSE settleOpen(pos, markets[find(markets, adminId)].currentP)

\* Mutant: the liquidation rule is applied to the settlement equity.
settlePosition_LiquidationCheck(pos, adminId, outcome) ==
    IF pos.marketId # adminId THEN pos
    ELSE IF pos.status = "SETTLED" THEN pos
    ELSE IF pos.status = "LIQUIDATED" THEN [pos EXCEPT !.status = "SETTLED"]
    ELSE LET q == settleOpen(pos, outcome * 100)
         IN  IF jsPriced(pos.notional, pos.imAmount, pos.entryP,
                           outcome * 100, pos.side).liquidation
             THEN [q EXCEPT !.status = "LIQUIDATED"] ELSE q

\* Mutant: a LIQUIDATED position is pinned to the outcome at settlement while
\* its pnl and equity stay as frozen.
settlePosition_PinLiquidated(pos, adminId, outcome) ==
    IF pos.marketId # adminId THEN pos
    ELSE IF pos.status = "SETTLED" THEN pos
    ELSE IF pos.status = "LIQUIDATED"
         THEN [pos EXCEPT !.status = "SETTLED", !.currentP = outcome * 100]
    ELSE settleOpen(pos, outcome * 100)

\* The updater of handleSettle's setPositions, for one position.
settlePosition(pos, adminId, outcome) ==
    IF pos.marketId # adminId THEN pos
    ELSE IF pos.status = "SETTLED" THEN pos
    ELSE IF pos.status = "LIQUIDATED" THEN [pos EXCEPT !.status = "SETTLED"]
    ELSE settleOpen(pos, outcome * 100)

handleSettle(adm, settleOutcome) ==
    LET adminMarket == markets[adm]
        outcome == IF settleOutcome = 1 THEN 1 ELSE 0
        f(m) == IF m.id = adminMarket.id
                THEN [m EXCEPT !.status = "SETTLED", !.outcome = outcome] ELSE m
        g(pos) == settlePosition(pos, adminMarket.id, outcome)
    IN
    /\ app = "js"
    /\ loaded /\ ~effectPending
    /\ adm \in 1..Len(markets)
    /\ markets' = Map(f, markets)
    /\ positions' = Map(g, positions)
    /\ effectPending' = TRUE
    /\ UNCHANGED <<app, loaded, notice, calc, inflight, users>>

\* Object.fromEntries(raw.map(m => [m.id, m]))[polyId]: the last entry with that
\* id, 0 if there is none.
byId(raw, polyId) ==
    IF \E i \in 1..Len(raw) : raw[i].id = polyId
    THEN CHOOSE i \in 1..Len(raw) :
            raw[i].id = polyId /\ \A j \in (i + 1)..Len(raw) : raw[j].id # polyId
    ELSE 0

\* handleRefreshFromPolymarket, the handler of the click: it assigns no state,
\* it starts the fetch fetchPolymarketMarkets(50), whose callbacks capture the
\* adminMarket of this render.  Nothing in the handler keeps a second click
\* from starting a second fetch while the first is unanswered: MaxInFlight
\* bounds the fetches in flight.
handleRefreshFromPolymarket(adm) ==
    /\ app = "js"
    /\ loaded /\ ~effectPending
    /\ adm \in 1..Len(markets)
    /\ markets[adm].source = "polymarket"
    /\ BagCardinality(inflight) < MaxInFlight
    /\ inflight' = inflight (+) SetToBag({Captured(markets[adm])})
    /\ UNCHANGED <<app, loaded, markets, positions, effectPending, notice, calc, users>>

\* Mutant: when the market is not in the response its probability is reset.
refreshThen_ClearOnMiss(adminMarket, data) ==
    LET raw == JsRefreshFetch[data]
        pm == byId(raw, adminMarket.polyId)
        p == IF pm = 0 THEN 0 ELSE polymarketToBube(raw[pm]).currentP
        f(m) == IF m.id = adminMarket.id THEN [m EXCEPT !.currentP = p] ELSE m
    IN
    /\ app = "js"
    /\ BagIn(adminMarket, inflight) /\ ~effectPending
    /\ markets' = Map(f, markets)
    /\ effectPending' = TRUE
    /\ inflight' = inflight (-) SetToBag({adminMarket})
    /\ UNCHANGED <<app, loaded, positions, notice, calc, users>>

\* Mutant: the callback replaces the market by the one converted from the
\* response, which is OPEN and has no outcome.
refreshThen_ReplacesMarket(adminMarket, data) ==
    LET raw == JsRefreshFetch[data]
        pm == byId(raw, adminMarket.polyId)
    IN
    /\ app = "js"
    /\ BagIn(adminMarket, inflight) /\ ~effectPending
    /\ IF pm = 0
       THEN UNCHANGED <<markets, effectPending>>
       ELSE LET mapped == polymarketToBube(raw[pm])
                f(m) == IF m.id = adminMarket.id THEN mapped ELSE m
            IN  /\ markets' = Map(f, markets)
                /\ effectPending' = TRUE
    /\ inflight' = inflight (-) SetToBag({adminMarket})
    /\ UNCHANGED <<app, loaded, positions, notice, calc, users>>

\* The .then callback of one of the fetches in flight, the one whose closure
\* holds adminMarket, with raw = fetchPolymarketMarkets(50) of data.  The
\* fetches in flight are answered in any order.  The updater of setMarkets
\* runs on the markets as they are when the callback runs (prev).
refreshThen(adminMarket, data) ==
    LET raw == JsRefreshFetch[data]
        pm == byId(raw, adminMarket.polyId)
    IN
    /\ app = "js"
    /\ BagIn(adminMarket, inflight) /\ ~effectPending
    /\ IF pm = 0
       THEN UNCHANGED <<markets, effectPending>>
       ELSE LET mapped == polymarketToBube(raw[pm])
                f(m) == IF m.id = adminMarket.id
                        THEN [m EXCEPT !.currentP = mapped.currentP] ELSE m
            IN  /\ markets' = Map(f, markets)
                /\ effectPending' = TRUE
    /\ inflight' = inflight (-) SetToBag({adminMarket})
    /\ UNCHANGED <<app, loaded, positions, notice, calc, users>>

\* Mutant: the failure resets the probability of the market.
refreshCatch_Partial(adminMarket) ==
    LET f(m) == IF m.id = adminMarket.id THEN [m EXCEPT !.currentP = 0] ELSE m
    IN
    /\ app = "js"
    /\ BagIn(adminMarket, inflight) /\ ~effectPending
    /\ markets' = Map(f, markets)
    /\ effectPending' = TRUE
    /\ inflight' = inflight (-) SetToBag({adminMarket})
    /\ UNCHANGED <<app, loaded, positions, notice, calc, users>>

\* The .catch callback of one of the fetches in flight: the fetch failed.  The
\* callback assigns no state.
refreshCatch(adminMarket) ==
    /\ app = "js"
    /\ BagIn(adminMarket, inflight) /\ ~effectPending
    /\ inflight' = inflight (-) SetToBag({adminMarket})
    /\ UNCHANGED <<app, loaded, markets, positions, effectPending, notice, calc, users>>

(***************************************************************************)
(* Streamlit app.  st.session_state.markets is a dict in insertion order;  *)
(* it is kept as the list of its values, whose ids are distinct.  One      *)
(* action is one run of main(): the sidebar, where the current user is     *)
(* selected, the Open Position tab, then the Positions tab (which          *)
(* recomputes every market when the current user has positions), then the  *)
(* Admin tab.                                                              *)
(***************************************************************************)
\* The loop of fetch_polymarket_markets.  json.loads of an outcomes field that
\* holds a number succeeds, and len() of the number raises TypeError, which the
\* loop does not catch: the call raises.
RECURSIVE fetch_loop(_, _, _, _, _, _)
fetch_loop(data, i, selected, max_markets, require_yes_no, only_open) ==
    IF i > Len(data) THEN [raised |-> FALSE, selected |-> selected]
    ELSE LET m == data[i]
             next == fetch_loop(data, i + 1, selected, max_markets,
                                require_yes_no, only_open)
         IN
         IF only_open /\ ~m.active THEN next
         ELSE IF only_open /\ m.closed THEN next
         ELSE IF require_yes_no /\ m.outcomes.kind = "unparsable" THEN next
         ELSE IF require_yes_no /\ m.outcomes.kind = "scalar"
              THEN [raised |-> TRUE, selected |-> <<>>]
         ELSE IF require_yes_no /\ Len(m.outcomes.items) # 2 THEN next
         ELSE IF Len(selected) + 1 >= max_markets
              THEN [raised |-> FALSE, selected |-> Append(selected, m)]
         ELSE fetch_loop(data, i + 1, Append(selected, m), max_markets,
                         require_yes_no, only_open)

\* The body of fetch_polymarket_markets after a successful request: whether it
\* raised, and the list it returned if it did not.
fetch_polymarket_markets(data, max_markets, require_yes_no, only_open) ==
    fetch_loop(data, 1, <<>>, max_markets, require_yes_no, only_open)

\* fetch_polymarket_markets(max_markets=10) and (max_markets=200) of every
\* response, computed once: main() leaves require_yes_no and only_open at
\* their defaults.
PyLoadFetch ==
    [data \in ProviderData \cup FeedData |->
        fetch_polymarket_markets(data, PyLoadMax, TRUE, TRUE)]
PyRefreshFetch ==
    [data \in ProviderData \cup FeedData |->
        fetch_polymarket_markets(data, PyRefreshMax, TRUE, TRUE)]

\* The code points of the digits zero of Unicode (14.0): the ten decimal
\* digits of a script follow each other from its zero.
DecimalZeros ==
    { 48, 1632, 1776, 1984, 2406, 2534, 2662, 2790, 2918, 3046, 3174, 3302,
      3430, 3558, 3664, 3792, 3872, 4160, 4240, 6112, 6160, 6470, 6608, 6784,
      6800, 6992, 7088, 7232, 7248, 42528, 43216, 43264, 43472, 43504, 43600,
      44016, 65296, 66720, 68912, 69734, 69872, 69942, 70096, 70384, 70736,
      70864, 71248, 71360, 71472, 71904, 72016, 72784, 73040, 73120, 92768,
      92864, 93008, 120782, 120792, 120802, 120812, 120822, 123200, 123632,
      125264, 130032 }

\* float(c) of a one-character string, in hundredths; -1 when it raises
\* ValueError.  float() converts a decimal digit of any script.
floatOfChar(c) ==
    IF \E zero \in DecimalZeros : c \in zero..(zero + 9)
    THEN 100 * (c - CHOOSE zero \in DecimalZeros : c \in zero..(zero + 9))
    ELSE -1

\* p_yes = float(prices[0]) if prices else 0.0, with its except clause: the
\* probability, and whether an exception leaves the function.  A field that
\* does not parse (JSONDecodeError) gives 0.0, and so does a falsy value (an
\* empty list, an empty string, the number 0).  Of a string, prices[0] is the
\* first character: a digit converts, anything else raises ValueError, which is
\* caught.  Of a number other than 0, prices[0] raises TypeError, which is not.
p_yes_of(prices) ==
    CASE prices.kind \in {"missing", "unparsable"} ->
            [raised |-> FALSE, p_yes |-> 0]
      [] prices.kind = "array" ->
            [raised |-> FALSE,
             p_yes |-> IF Len(prices.items) > 0 THEN prices.items[1] ELSE 0]
      [] prices.kind = "string" ->
            [raised |-> FALSE,
             p_yes |-> IF Len(prices.items) = 0 THEN 0
                       ELSE IF floatOfChar(prices.items[1]) < 0 THEN 0
                       ELSE floatOfChar(prices.items[1])]
      [] prices.kind = "scalar" ->
            IF prices.items[1] = 0 THEN [raised |-> FALSE, p_yes |-> 0]
            ELSE [raised |-> TRUE, p_yes |-> 0]

\* The dict polymarket_market_to_bube returns (bm), unless it raises.
polymarket_market_to_bube(m) ==
    LET p == p_yes_of(m.outcomePrices)
    IN  [raised |-> p.raised,
         bm |-> [id |-> <<"poly", m.id>>, source |-> "polymarket", polyId |-> m.id,
                 currentP |-> p.p_yes, status |-> "OPEN", outcome |-> null]]

\* markets[bm["id"]] = bm
put(ms, bm) ==
    LET k == find(ms, bm.id)
    IN  IF k = 0 THEN Append(ms, bm) ELSE [ms EXCEPT ![k] = bm]

\* for pm in poly_markets: bm = polymarket_market_to_bube(pm);
\* st.session_state.markets[bm["id"]] = bm.  When a conversion raises, the
\* markets stored before it stay.
RECURSIVE convertAll(_, _, _)
convertAll(poly_markets, i, ms) ==
    IF i > Len(poly_markets) THEN [raised |-> FALSE, markets |-> ms]
    ELSE LET c == polymarket_market_to_bube(poly_markets[i])
         IN  IF c.raised THEN [raised |-> TRUE, markets |-> ms]
             ELSE convertAll(poly_markets, i + 1, put(ms, c.bm))

\* The two demo markets init_state falls back to.
DemoMarkets ==
    << [id |-> <<"local", 1>>, source |-> "local", polyId |-> 0,
        currentP |-> 62, status |-> "OPEN", outcome |-> null],
       [id |-> <<"local", 2>>, source |-> "local", polyId |-> 0,
        currentP |-> 41, status |-> "OPEN", outcome |-> null] >>

\* The body of the loop of update_positions_for_market, for one position.
\* priced holds the results of pd_pnl, compute_equity and is_liquidation.
updated_position(pos, current_p, priced) ==
    LET pnl == priced.pnl
        equity == priced.equity
        updated == [pos EXCEPT !.pnl = pnl, !.equity = equity,
                               !.currentP = current_p]
    IN  IF priced.liquidation
        THEN [updated EXCEPT !.status = "LIQUIDATED"]
        ELSE updated

update_open(pos, current_p) ==
    updated_position(pos, current_p,
                     pyPriced(pos.notional, pos.imAmount, pos.entryP,
                              current_p, pos.side))

update_position(ms, pos, market_id) ==
    IF pos.marketId # market_id THEN pos
    ELSE IF pos.status # "OPEN" THEN pos
    ELSE update_open(pos, ms[find(ms, market_id)].currentP)

\* update_positions_for_market of a market of ms (markets[market_id] raises
\* KeyError for any other id; main() passes ids of markets only).
update_positions_for_market(ms, ps, market_id) ==
    LET f(pos) == update_position(ms, pos, market_id) IN Map(f, ps)

RECURSIVE updateAll(_, _, _)
updateAll(ms, ps, i) ==
    IF i > Len(ms) THEN ps
    ELSE updateAll(ms, update_positions_for_market(ms, ps, ms[i].id), i + 1)

\* Positions tab: user_positions = [p for p in positions if p["user_id"] ==
\* current_user_id]; when it is empty nothing is recomputed, otherwise
\* for mid in markets.keys(): update_positions_for_market(mid), which goes
\* through the positions of every user.
positionsTab(ms, ps, current_user_id) ==
    LET user_positions == SelectSeq(ps, LAMBDA p : p.userId = current_user_id)
    IN  IF Len(user_positions) = 0 THEN ps ELSE updateAll(ms, ps, 1)

\* priced holds the results of pd_pnl and compute_equity at the outcome.
settled_position(pos, outcome, priced) ==
    LET final_pnl == priced.pnl
    IN  [pos EXCEPT !.pnl = final_pnl,
                    !.equity = priced.equity,
                    !.currentP = outcome * 100,
                    !.status = "SETTLED"]

settle_position(pos, market_id, outcome) ==
    IF pos.marketId # market_id THEN pos
    ELSE IF pos.status = "SETTLED" THEN pos
    ELSE IF pos.status = "LIQUIDATED" THEN [pos EXCEPT !.status = "SETTLED"]
    ELSE settled_position(pos, outcome,
                          pyPriced(pos.notional, pos.imAmount, pos.entryP,
                                   outcome * 100, pos.side))

\* Mutant: the market is marked SETTLED and its outcome is not recorded.
settle_market_StatusOnly(ms, ps, market_id, outcome) ==
    LET f(m) == IF m.id = market_id THEN [m EXCEPT !.status = "SETTLED"] ELSE m
        g(pos) == settle_position(pos, market_id, outcome)
    IN  <<Map(f, ms), Map(g, ps)>>

\* settle_market: the new markets and positions.
settle_market(ms, ps, market_id, outcome) ==
    LET f(m) == IF m.id = market_id
                THEN [m EXCEPT !.status = "SETTLED", !.outcome = outcome] ELSE m
        g(pos) == settle_position(pos, market_id, outcome)
    IN  <<Map(f, ms), Map(g, ps)>>

\* init_state on the first run, fetch answered with data: the demo user is
\* seeded, then the markets.  An exception of the conversion loop is caught
\* like one of the fetch: the demo markets are added to the markets the loop
\* has stored before it.
PyInit(data) ==
    /\ app = "py"
    /\ ~loaded
    /\ users' = <<codePoints("demo_trader")>>
    /\ LET fetched == PyLoadFetch[data]
           poly_markets == fetched.selected
           converted == convertAll(poly_markets, 1, <<>>)
       IN  IF fetched.raised \/ Len(poly_markets) = 0
           THEN /\ markets' = DemoMarkets
                /\ notice' = "Polymarket API unavailable"
           ELSE IF converted.raised
           THEN /\ markets' = converted.markets \o DemoMarkets
                /\ notice' = "Polymarket API unavailable"
           ELSE /\ markets' = converted.markets
                /\ notice' = "none"
    /\ loaded' = TRUE
    /\ UNCHANGED <<app, positions, effectPending, calc, inflight>>

\* init_state on the first run, fetch failed: the demo markets.
PyInitFailed ==
    /\ app = "py"
    /\ ~loaded
    /\ users' = <<codePoints("demo_trader")>>
    /\ markets' = DemoMarkets
    /\ loaded' = TRUE
    /\ notice' = "Polymarket API unavailable"
    /\ UNCHANGED <<app, positions, effectPending, calc, inflight>>

\* str.strip(): the string without the white space it starts and ends with.
\* str.isspace() holds of the control characters 9..13 and 28..31, the blank,
\* NEL (133), the no-break space (160) and the Unicode spaces and separators.
isspace(c) ==
    c \in (9..13) \cup (28..32) \cup {133, 160, 5760} \cup (8192..8202)
            \cup {8232, 8233, 8239, 8287, 12288}

RECURSIVE lstrip(_)
lstrip(s) ==
    IF Len(s) > 0 /\ isspace(Head(s)) THEN lstrip(Tail(s))
    ELSE s

RECURSIVE rstrip(_)
rstrip(s) ==
    IF Len(s) > 0 /\ isspace(s[Len(s)])
    THEN rstrip(SubSeq(s, 1, Len(s) - 1))
    ELSE s

strip(s) == lstrip(rstrip(s))

\* A run with "Create user" pressed, current_user_id selected in the sidebar
\* and new_name in the Username field.  The selectbox is drawn before the
\* button, so the new user can be selected from the next run on.
PyCreateUser(current_user_id, new_name) ==
    /\ app = "py"
    /\ loaded /\ notice = "none"
    /\ current_user_id \in 1..Len(users)
    /\ IF strip(new_name) # <<>>
       THEN /\ Len(users) < MaxUsers
            /\ users' = Append(users, strip(new_name))
            /\ notice' = "User created"
       ELSE /\ users' = users
            /\ notice' = "Username cannot be empty."
    /\ positions' = positionsTab(markets, positions, current_user_id)
    /\ UNCHANGED <<app, loaded, markets, effectPending, calc, inflight>>

\* A run with the Open Position button pressed.
PyOpenPosition(current_user_id, sel, ticket) ==
    LET side_value == ticket[1]
        notional == ticket[2]
        im_pct == ticket[3]
        m == markets[sel]
    IN
    /\ app = "py"
    /\ loaded /\ notice = "none"
    /\ current_user_id \in 1..Len(users)
    /\ sel \in 1..Len(markets)
    /\ IF m.status # "OPEN"
       THEN /\ positions' = positionsTab(markets, positions, current_user_id)
            /\ notice' = "Cannot open position on a settled market."
       ELSE IF notional <= 0
       THEN /\ positions' = positionsTab(markets, positions, current_user_id)
            /\ notice' = "Notional must be > 0."
       ELSE LET im_amount == pyMargin[ticket]
                entry_p == m.currentP
                pos == [id |-> Len(positions) + 1,
                        userId |-> current_user_id,
                        marketId |-> m.id,
                        side |-> side_value,
                        notional |-> notional,
                        imPct |-> im_pct,
                        imAmount |-> im_amount,
                        entryP |-> entry_p,
                        currentP |-> entry_p,
                        pnl |-> 0,
                        equity |-> im_amount,
                        status |-> "OPEN"]
            IN  /\ positions' = positionsTab(markets, Append(positions, pos),
                                             current_user_id)
                /\ notice' = "Opened position"
    /\ UNCHANGED <<app, loaded, markets, effectPending, calc, inflight, users>>

\* A run with "Apply manual probability" pressed.
PyManualProb(current_user_id, adm, new_p) ==
    LET adm_mid == markets[adm].id
        shown == positionsTab(markets, positions, current_user_id)
        ms == [markets EXCEPT ![adm].currentP = new_p]
    IN
    /\ app = "py"
    /\ loaded /\ notice = "none"
    /\ current_user_id \in 1..Len(users)
    /\ adm \in 1..Len(markets)
    /\ markets' = ms
    /\ positions' = update_positions_for_market(ms, shown, adm_mid)
    /\ notice' = "Updated probability"
    /\ UNCHANGED <<app, loaded, effectPending, calc, inflight, users>>

\* A run with "Settle market with outcome" pressed.
PySettle(current_user_id, adm, outcome) ==
    LET adm_mid == markets[adm].id
        shown == positionsTab(markets, positions, current_user_id)
        settled == settle_market(markets, shown, adm_mid, outcome)
    IN
    /\ app = "py"
    /\ loaded /\ notice = "none"
    /\ current_user_id \in 1..Len(users)
    /\ adm \in 1..Len(markets)
    /\ markets' = settled[1]
    /\ positions' = settled[2]
    /\ notice' = "Market settled"
    /\ UNCHANGED <<app, loaded, effectPending, calc, inflight, users>>

\* A run with "Pull latest Polymarket price" pressed, fetch answered with data.
\* The try block holds the fetch and the conversion: an exception of either is
\* reported, and nothing has been stored before it.
PyRefresh(current_user_id, adm, data) ==
    LET adm_m == markets[adm]
        shown == positionsTab(markets, positions, current_user_id)
        fetched == PyRefreshFetch[data]
        poly_markets == fetched.selected
        pm == byId(poly_markets, adm_m.polyId)
    IN
    /\ app = "py"
    /\ loaded /\ notice = "none"
    /\ current_user_id \in 1..Len(users)
    /\ adm \in 1..Len(markets)
    /\ adm_m.source = "polymarket"
    /\ IF fetched.raised
       THEN /\ markets' = markets
            /\ positions' = shown
            /\ notice' = "Error refreshing from Polymarket"
       ELSE IF pm # 0
       THEN LET c == polymarket_market_to_bube(poly_markets[pm])
                bm == c.bm
                ms == [markets EXCEPT ![adm].currentP = bm.currentP]
            IN  IF c.raised
                THEN /\ markets' = markets
                     /\ positions' = shown
                     /\ notice' = "Error refreshing from Polymarket"
                ELSE /\ markets' = ms
                     /\ positions' = update_positions_for_market(ms, shown, adm_m.id)
                     /\ notice' = "Updated from Polymarket"
       ELSE /\ markets' = markets
            /\ positions' = shown
            /\ notice' = "Matching Polymarket market not found"
    /\ UNCHANGED <<app, loaded, effectPending, calc, inflight, users>>

\* The same run, fetch failed: the except branch.
PyRefreshFailed(current_user_id, adm) ==
    LET adm_m == markets[adm] IN
    /\ app = "py"
    /\ loaded /\ notice = "none"
    /\ current_user_id \in 1..Len(users)
    /\ adm \in 1..Len(markets)
    /\ adm_m.source = "polymarket"
    /\ positions' = positionsTab(markets, positions, current_user_id)
    /\ notice' = "Error refreshing from Polymarket"
    /\ UNCHANGED <<app, loaded, markets, effectPending, calc, inflight, users>>

\* A run with no button pressed (a widget was changed): the message of the
\* previous run is gone.  The runs with a button pressed are taken from here:
\* they read nothing of the previous run's message, so a button pressed while
\* a message is shown has the effect it has after this run.
PyRerun(current_user_id) ==
    /\ app = "py"
    /\ loaded /\ notice # "none"
    /\ current_user_id \in 1..Len(users)
    /\ positions' = positionsTab(markets, positions, current_user_id)
    /\ notice' = "none"
    /\ UNCHANGED <<app, loaded, markets, effectPending, calc, inflight, users>>

(***************************************************************************)
(* The two applications.                                                   *)
(***************************************************************************)
Init ==
    /\ app \in {"js", "py"}
    /\ loaded = FALSE
    /\ markets = <<>>
    /\ positions = <<>>
    /\ effectPending = FALSE
    /\ notice = "none"
    /\ inflight = NoRequest
    /\ users = <<>>
    /\ calc = IdleCalc

Next ==
    \/ RecomputeEffect
    \/ \E data \in ProviderData : Load(data)
    \/ LoadFailed
    \/ \E sel \in 1..Len(markets), ticket \in JsOrderTickets :
          handleOpenPosition(sel, ticket) /\ Len(positions') <= MaxPositions
    \/ \E adm \in 1..Len(markets), p \in ManualProbs : handleManualProbApply(adm, p)
    \/ \E adm \in 1..Len(markets), o \in Outcomes : handleSettle(adm, o)
    \/ \E adm \in 1..Len(markets) : handleRefreshFromPolymarket(adm)
    \/ \E adminMarket \in BagToSet(inflight), data \in ProviderData :
          refreshThen(adminMarket, data)
    \/ \E adminMarket \in BagToSet(inflight) : refreshCatch(adminMarket)
    \/ \E data \in ProviderData : PyInit(data)
    \/ PyInitFailed
    \/ \E user \in 1..Len(users), sel \in 1..Len(markets), ticket \in OrderTickets :
          PyOpenPosition(user, sel, ticket) /\ Len(positions') <= MaxPositions
    \/ \E user \in 1..Len(users), adm \in 1..Len(markets), p \in SliderProbs :
          PyManualProb(user, adm, p)
    \/ \E user \in 1..Len(users), adm \in 1..Len(markets), o \in Outcomes :
          PySettle(user, adm, o)
    \/ \E user \in 1..Len(users), adm \in 1..Len(markets), data \in ProviderData :
          PyRefresh(user, adm, data)
    \/ \E user \in 1..Len(users), adm \in 1..Len(markets) :
          PyRefreshFailed(user, adm)
    \/ \E user \in 1..Len(users) : PyRerun(user)

Spec == Init /\ [][Next]_vars

(***************************************************************************)
(* The pricing functions on their own: the arguments are drawn at the      *)
(* start, one step applies pdPnl / computeEquity (or the Python copy) for  *)
(* both sides, and keeps the results to the unit, with whether the two     *)
(* doubles returned for the two sides are each other's negation.           *)
(***************************************************************************)
PricingInit ==
    /\ app = "calc"
    /\ loaded = FALSE
    /\ markets = <<>>
    /\ positions = <<>>
    /\ effectPending = FALSE
    /\ notice = "none"
    /\ inflight = NoRequest
    /\ users = <<>>
    /\ calc \in { CalcInput(n, e, c, im) :
                    n \in CalcNotionals, e \in CalcProbs, c \in CalcProbs,
                    im \in CalcMargins }

PriceJs ==
    /\ calc.by = "none"
    /\ LET notional == fromInt(calc.notional)
           pEntry == hundredths(calc.entryP)
           pCurrent == hundredths(calc.currentP)
           imAmount == fromInt(calc.imAmount)
           long == pdPnl(notional, pEntry, pCurrent, "LONG")
           short == pdPnl(notional, pEntry, pCurrent, "SHORT")
       IN  calc' = [calc EXCEPT !.by = "js",
                                !.pnlLong = Math_round(long),
                                !.pnlShort = Math_round(short),
                                !.equityLong = Math_round(computeEquity(imAmount, long)),
                                !.equityShort = Math_round(computeEquity(imAmount, short)),
                                !.opposite = (long = fneg(short))]
    /\ UNCHANGED <<app, loaded, markets, positions, effectPending, notice, inflight, users>>

\* pd_pnl takes the side in any mix of cases.
PricePy(sideLong, sideShort) ==
    /\ calc.by = "none"
    /\ LET notional == fromInt(calc.notional)
           p_entry == hundredths(calc.entryP)
           p_current == hundredths(calc.currentP)
           im_amount == fromInt(calc.imAmount)
           long == pd_pnl(notional, p_entry, p_current, sideLong)
           short == pd_pnl(notional, p_entry, p_current, sideShort)
       IN  calc' = [calc EXCEPT !.by = "py",
                                !.pnlLong = format_0f(long),
                                !.pnlShort = format_0f(short),
                                !.equityLong = format_0f(compute_equity(im_amount, long)),
                                !.equityShort = format_0f(compute_equity(im_amount, short)),
                                !.opposite = (long = fneg(short))]
    /\ UNCHANGED <<app, loaded, markets, positions, effectPending, notice, inflight, users>>

PricingNext ==
    \/ PriceJs
    \/ \E sideLong \in LongSpellings, sideShort \in ShortSpellings :
          PricePy(sideLong, sideShort)

PricingSpec == PricingInit /\ [][PricingNext]_vars

(***************************************************************************)
(* The ingestion filter on its own: a batch of candidates, a cap and the   *)
(* two keyword arguments of the Python function are drawn at the start,    *)
(* one step applies fetchPolymarketMarkets (which has the cap for its only *)
(* parameter) or fetch_polymarket_markets to them.                         *)
(***************************************************************************)
\* The candidates a batch is made of: well-formed; inactive; closed; three
\* outcomes; outcomes that do not parse; outcomes that parse to a number;
\* outcomes that parse to a string of two characters ("ok").
IngestCandidates(id) ==
    { Candidate(id, TRUE, FALSE, YesNo, Arr(<<50, 50>>)),
      Candidate(id, FALSE, FALSE, YesNo, Arr(<<50, 50>>)),
      Candidate(id, TRUE, TRUE, YesNo, Arr(<<50, 50>>)),
      Candidate(id, TRUE, FALSE, Arr(<<"A", "B", "C">>), Arr(<<30, 30, 40>>)),
      Candidate(id, TRUE, FALSE, Unparsable, Arr(<<50, 50>>)),
      Candidate(id, TRUE, FALSE, Scalar, Arr(<<50, 50>>)),
      Candidate(id, TRUE, FALSE, Str(<<111, 107>>), Arr(<<50, 50>>)) }

IngestBatches ==
    {<<>>}
      \cup { <<a>> : a \in IngestCandidates(1) }
      \cup { <<a, b>> : a \in IngestCandidates(1), b \in IngestCandidates(2) }
      \cup { <<a, b, c>> : a \in IngestCandidates(1), b \in IngestCandidates(2),
                           c \in IngestCandidates(3) }

IngestCaps == {1, 2}

IngestInput(batch, maxMarkets, require_yes_no, only_open) ==
    [batch |-> batch, maxMarkets |-> maxMarkets,
     require_yes_no |-> require_yes_no, only_open |-> only_open,
     by |-> "none", raised |-> FALSE, selected |-> <<>>]

IngestInit ==
    /\ app = "fetch"
    /\ loaded = FALSE
    /\ markets = <<>>
    /\ positions = <<>>
    /\ effectPending = FALSE
    /\ notice = "none"
    /\ inflight = NoRequest
    /\ users = <<>>
    /\ calc \in { IngestInput(b, n, yn, oo) :
                    b \in IngestBatches, n \in IngestCaps,
                    yn \in BOOLEAN, oo \in BOOLEAN }

FetchJs ==
    /\ app = "fetch" /\ calc.by = "none"
    /\ calc' = [calc EXCEPT !.by = "js",
                            !.selected = fetchPolymarketMarkets(calc.batch, calc.maxMarkets)]
    /\ UNCHANGED <<app, loaded, markets, positions, effectPending, notice, inflight, users>>

FetchPy ==
    /\ app = "fetch" /\ calc.by = "none"
    /\ LET fetched == fetch_polymarket_markets(calc.batch, calc.maxMarkets,
                                               calc.require_yes_no, calc.only_open)
       IN  calc' = [calc EXCEPT !.by = "py", !.raised = fetched.raised,
                                !.selected = fetched.selected]
    /\ UNCHANGED <<app, loaded, markets, positions, effectPending, notice, inflight, users>>

IngestNext == FetchJs \/ FetchPy

IngestSpec == IngestInit /\ [][IngestNext]_vars

(***************************************************************************)
(* The React application alone, with one order ticket and one manual      *)
(* probability: the handlers that run between the click of a refresh and   *)
(* its callback, a second click that starts a second fetch, and the        *)
(* answers coming in any order.                                            *)
(***************************************************************************)
InFlightManualProbs == {120}
InFlightOutcomes == {1}

InFlightInit == Init /\ app = "js"

InFlightNext ==
    \/ RecomputeEffect
    \/ \E data \in ProviderData : Load(data)
    \/ LoadFailed
    \/ \E sel \in 1..Len(markets), ticket \in FeedTickets :
          handleOpenPosition(sel, ticket) /\ Len(positions') <= MaxPositions
    \/ \E adm \in 1..Len(markets), p \in InFlightManualProbs : handleManualProbApply(adm, p)
    \/ \E adm \in 1..Len(markets), o \in InFlightOutcomes : handleSettle(adm, o)
    \/ \E adm \in 1..Len(markets) : handleRefreshFromPolymarket(adm)
    \/ \E adminMarket \in BagToSet(inflight), data \in ProviderData :
          refreshThen(adminMarket, data)
    \/ \E adminMarket \in BagToSet(inflight) : refreshCatch(adminMarket)

InFlightSpec == InFlightInit /\ [][InFlightNext]_vars

(***************************************************************************)
(* The price feed: the same handlers, with the provider answering the     *)
(* malformed responses of FeedData, the manual field holding numbers       *)
(* outside [0, 1], and one order ticket.  The admin of the React           *)
(* application waits for the answer to a refresh before asking for the     *)
(* next one; the other handlers run while the request is pending.          *)
(***************************************************************************)
FeedNext ==
    \/ RecomputeEffect
    \/ \E data \in FeedData : Load(data)
    \/ LoadFailed
    \/ \E sel \in 1..Len(markets), ticket \in FeedTickets :
          handleOpenPosition(sel, ticket) /\ Len(positions') <= MaxPositions
    \/ \E adm \in 1..Len(markets), p \in FeedManualProbs : handleManualProbApply(adm, p)
    \/ \E adm \in 1..Len(markets), o \in Outcomes : handleSettle(adm, o)
    \/ /\ inflight = NoRequest
       /\ \E adm \in 1..Len(markets) : handleRefreshFromPolymarket(adm)
    \/ \E adminMarket \in BagToSet(inflight), data \in FeedData :
          refreshThen(adminMarket, data)
    \/ \E adminMarket \in BagToSet(inflight) : refreshCatch(adminMarket)
    \/ \E data \in FeedData : PyInit(data)
    \/ PyInitFailed
    \/ \E user \in 1..Len(users), sel \in 1..Len(markets), ticket \in FeedTickets :
          PyOpenPosition(user, sel, ticket) /\ Len(positions') <= MaxPositions
    \/ \E user \in 1..Len(users), adm \in 1..Len(markets), p \in SliderProbs :
          PyManualProb(user, adm, p)
    \/ \E user \in 1..Len(users), adm \in 1..Len(markets), o \in Outcomes :
          PySettle(user, adm, o)
    \/ \E user \in 1..Len(users), adm \in 1..Len(markets), data \in FeedData :
          PyRefresh(user, adm, data)
    \/ \E user \in 1..Len(users), adm \in 1..Len(markets) :
          PyRefreshFailed(user, adm)
    \/ \E user \in 1..Len(users) : PyRerun(user)

FeedSpec == Init /\ [][FeedNext]_vars

(***************************************************************************)
(* Orders beside orders: the handlers of both applications with a ledger   *)
(* that takes MaxBeside positions, so that a position is opened, repriced  *)
(* and settled beside another one.  One order ticket, one                  *)
(* manual probability and one outcome; the admin of the React application  *)
(* waits for the answer to a refresh before asking for the next one.       *)
(***************************************************************************)
IsolationNext ==
    \/ RecomputeEffect
    \/ \E data \in ProviderData : Load(data)
    \/ LoadFailed
    \/ \E sel \in 1..Len(markets), ticket \in FeedTickets :
          handleOpenPosition(sel, ticket) /\ Len(positions') <= MaxBeside
    \/ \E adm \in 1..Len(markets), p \in InFlightManualProbs : handleManualProbApply(adm, p)
    \/ \E adm \in 1..Len(markets), o \in InFlightOutcomes : handleSettle(adm, o)
    \/ /\ inflight = NoRequest
       /\ \E adm \in 1..Len(markets) : handleRefreshFromPolymarket(adm)
    \/ \E adminMarket \in BagToSet(inflight), data \in ProviderData :
          refreshThen(adminMarket, data)
    \/ \E adminMarket \in BagToSet(inflight) : refreshCatch(adminMarket)
    \/ \E data \in ProviderData : PyInit(data)
    \/ PyInitFailed
    \/ \E user \in 1..Len(users), sel \in 1..Len(markets), ticket \in FeedTickets :
          PyOpenPosition(user, sel, ticket) /\ Len(positions') <= MaxBeside
    \/ \E user \in 1..Len(users), adm \in 1..Len(markets), p \in SliderProbs :
          PyManualProb(user, adm, p)
    \/ \E user \in 1..Len(users), adm \in 1..Len(markets), o \in InFlightOutcomes :
          PySettle(user, adm, o)
    \/ \E user \in 1..Len(users), adm \in 1..Len(markets), data \in ProviderData :
          PyRefresh(user, adm, data)
    \/ \E user \in 1..Len(users), adm \in 1..Len(markets) :
          PyRefreshFailed(user, adm)
    \/ \E user \in 1..Len(users) : PyRerun(user)

IsolationSpec == Init /\ [][IsolationNext]_vars



(***************************************************************************)
(* The liquidation threshold met exactly: the handlers of both             *)
(* applications with the orders and probabilities of TieTickets.           *)
(***************************************************************************)
TieNext ==
    \/ RecomputeEffect
    \/ \E data \in ProviderData : Load(data)
    \/ LoadFailed
    \/ \E sel \in 1..Len(markets), ticket \in JsTieTickets :
          handleOpenPosition(sel, ticket) /\ Len(positions') <= MaxPositions
    \/ \E adm \in 1..Len(markets), p \in TieManualProbs : handleManualProbApply(adm, p)
    \/ \E adm \in 1..Len(markets), o \in Outcomes : handleSettle(adm, o)
    \/ \E adm \in 1..Len(markets) : handleRefreshFromPolymarket(adm)
    \/ \E adminMarket \in BagToSet(inflight), data \in ProviderData :
          refreshThen(adminMarket, data)
    \/ \E adminMarket \in BagToSet(inflight) : refreshCatch(adminMarket)
    \/ \E data \in ProviderData : PyInit(data)
    \/ PyInitFailed
    \/ \E user \in 1..Len(users), sel \in 1..Len(markets), ticket \in TieTickets :
          PyOpenPosition(user, sel, ticket) /\ Len(positions') <= MaxPositions
    \/ \E user \in 1..Len(users), adm \in 1..Len(markets), p \in TieSliderProbs :
          PyManualProb(user, adm, p)
    \/ \E user \in 1..Len(users), adm \in 1..Len(markets), o \in Outcomes :
          PySettle(user, adm, o)
    \/ \E user \in 1..Len(users), adm \in 1..Len(markets), data \in ProviderData :
          PyRefresh(user, adm, data)
    \/ \E user \in 1..Len(users), adm \in 1..Len(markets) : PyRefreshFailed(user, adm)
    \/ \E user \in 1..Len(users) : PyRerun(user)

TieSpec == Init /\ [][TieNext]_vars

(***************************************************************************)
(* Renders: the handlers that change probabilities and positions, with     *)
(* several users in the Streamlit session.  Every run is made by the user  *)
(* selected in the sidebar, "Create user" adds users, and the Positions    *)
(* tab of a run recomputes the ledger when that user has positions.        *)
(***************************************************************************)
SessionNext ==
    \/ RecomputeEffect
    \/ \E data \in ProviderData : Load(data)
    \/ LoadFailed
    \/ \E sel \in 1..Len(markets), ticket \in FeedTickets :
          handleOpenPosition(sel, ticket) /\ Len(positions') <= MaxPositions
    \/ \E adm \in 1..Len(markets), p \in FeedManualProbs : handleManualProbApply(adm, p)
    \/ \E adm \in 1..Len(markets), o \in Outcomes : handleSettle(adm, o)
    \/ \E data \in ProviderData : PyInit(data)
    \/ PyInitFailed
    \/ \E user \in 1..Len(users), new_name \in NewUserNames :
          PyCreateUser(user, new_name)
    \/ \E user \in 1..Len(users), sel \in 1..Len(markets), ticket \in FeedTickets :
          PyOpenPosition(user, sel, ticket) /\ Len(positions') <= MaxPositions
    \/ \E user \in 1..Len(users), adm \in 1..Len(markets), p \in SliderProbs :
          PyManualProb(user, adm, p)
    \/ \E user \in 1..Len(users), adm \in 1..Len(markets), o \in Outcomes :
          PySettle(user, adm, o)
    \/ \E user \in 1..Len(users) : PyRerun(user)

SessionSpec == Init /\ [][SessionNext]_vars
(***************************************************************************)
(* Properties of the position ledger.  In a step, positions[i] is the      *)
(* position before and positions'[i] the same position after: positions    *)
(* are only ever appended, never removed or reordered.                     *)
(***************************************************************************)
sign(side) == IF side = "LONG" THEN 1 ELSE -1

\* The users a run of the Streamlit application can be made by; the React
\* application has no users, and 0 stands for its one session.
RunUsers == IF app = "py" THEN 1..Len(users) ELSE {0}

\* The live probability, in ms, of the market with that id.
priceOf(ms, id) == ms[find(ms, id)].currentP

\* The status of the market with that id.
statusOf(ms, id) == ms[find(ms, id)].status

\* A settlement of market number adm with that outcome, in either application.
\* The first conjunct follows from the second; it comes first so that the
\* handlers are evaluated only on the steps that record that outcome.
SettleStep(adm, o) ==
    /\ markets'[adm].status = "SETTLED" /\ markets'[adm].outcome = o
    /\ app = "js" => effectPending'
    /\ (handleSettle(adm, o) \/ \E user \in RunUsers : PySettle(user, adm, o))

\* The step settles the market with that id.
Settles(id) ==
    \E adm \in 1..Len(markets), o \in Outcomes :
        SettleStep(adm, o) /\ markets[adm].id = id

\* The step recomputes the positions of the market with that id from the
\* market's probability: the effect in the React application; in the Streamlit
\* application every run does (Positions tab, then the Admin handler), unless
\* the run settles that market.
Recomputes(id) ==
    \/ RecomputeEffect
    \/ app = "py" /\ loaded /\ ~Settles(id)

\* The liquidation rule on the fields of a position priced at currentP, in
\* the arithmetic of the program: whether the double of imAmount + notional *
\* (currentP - entryP) * sign(side) is at most the double of 0.05 * imAmount,
\* and whether it is positive.
thresholdTest(notional, imAmount, entryP, currentP, side) ==
    LET deltaP == fsub(hundredths(currentP), hundredths(entryP))
        pnl == fmul(fmul(fromInt(notional), deltaP), fromInt(sign(side)))
        equity == fadd(fromInt(imAmount), pnl)
    IN  [atOrBelow |-> fle(equity, fmul(LIQ_THRESHOLD_BETA, fromInt(imAmount))),
         positive |-> flt(Zero, equity)]

ThresholdTable ==
    [x \in PricedArgs |-> thresholdTest(x[1], x[2], x[3], x[4], x[5])]

Threshold(pos) ==
    LET x == <<pos.notional, pos.imAmount, pos.entryP, pos.currentP, pos.side>>
    IN  IF x \in DOMAIN ThresholdTable THEN ThresholdTable[x]
        ELSE thresholdTest(pos.notional, pos.imAmount, pos.entryP, pos.currentP,
                           pos.side)

AtOrBelowThreshold(pos) == Threshold(pos).atOrBelow

\* The position is priced at probability p (hundredths): its pnl and equity,
\* as the ledger shows them, are the decimal values.
PricedAt(pos, p) ==
    /\ 100 * pos.pnl = pos.notional * (p - pos.entryP) * sign(pos.side)
    /\ pos.equity = pos.imAmount + pos.pnl
    /\ pos.currentP = p

\* C1: a recompute of an OPEN position prices it at the market's probability
\* and leaves it LIQUIDATED if and only if the recomputed equity is at most 5%
\* of its margin, OPEN otherwise; a position becomes LIQUIDATED in no other
\* step, and a new position starts OPEN.  The equity and the threshold are the
\* doubles the program compares.  Instance: LONG 1,000,000 at 10% margin, entry
\* 0.50, recomputed at 0.40, has pnl -100,000, equity 0 (to the unit) and is
\* LIQUIDATED.
C1_LiquidationThreshold ==
    [][ /\ \A i \in 1..Len(positions) :
            LET p == positions[i]
                q == positions'[i]
            IN  /\ (q.status = "LIQUIDATED" /\ p.status # "LIQUIDATED")
                      => /\ p.status = "OPEN"
                         /\ Recomputes(p.marketId)
                         /\ AtOrBelowThreshold(q)
                /\ (p.status = "OPEN" /\ Recomputes(p.marketId))
                      => /\ PricedAt(q, priceOf(markets', p.marketId))
                         /\ q.status = IF AtOrBelowThreshold(q)
                                       THEN "LIQUIDATED" ELSE "OPEN"
                         /\ (/\ p.side = "LONG" /\ p.notional = 1000000
                             /\ p.imAmount = 100000 /\ p.entryP = 50
                             /\ priceOf(markets', p.marketId) = 40)
                               => /\ q.pnl = -100000 /\ q.equity = 0
                                  /\ q.status = "LIQUIDATED"
        /\ \A i \in (Len(positions) + 1)..Len(positions') :
            positions'[i].status = "OPEN"
      ]_vars

\* C1's case: the instance position has been recomputed at 0.40 and liquidated.
C1_Witness_Instance ==
    \E i \in 1..Len(positions) :
        LET p == positions[i] IN
        /\ p.status = "LIQUIDATED" /\ p.side = "LONG" /\ p.notional = 1000000
        /\ p.imAmount = 100000 /\ p.entryP = 50 /\ p.currentP = 40
        /\ p.pnl = -100000 /\ p.equity = 0

\* C2: while a position is LIQUIDATED, no step changes its pnl, its equity or
\* its current probability, whatever happens to the probability of its market.
C2_FreezeAfterLiquidation ==
    [][ \A i \in 1..Len(positions) :
            LET p == positions[i]
                q == positions'[i]
            IN  p.status = "LIQUIDATED"
                  => /\ q.pnl = p.pnl /\ q.equity = p.equity
                     /\ q.currentP = p.currentP
      ]_vars

\* C2's case: a LIQUIDATED position whose market has moved away from the
\* probability the position was liquidated at, after the recompute ran.
C2_Witness_MarketMovedOn ==
    /\ ~effectPending
    /\ \E i \in 1..Len(positions) :
        LET p == positions[i] IN
        /\ p.status = "LIQUIDATED"
        /\ statusOf(markets, p.marketId) = "OPEN"
        /\ priceOf(markets, p.marketId) # p.currentP

\* C3: right after a settlement of a market, every position of that market is
\* SETTLED, whatever its status was before.
C3_SettlementFinality ==
    [][ \A adm \in 1..Len(markets), o \in Outcomes :
            SettleStep(adm, o)
              => \A i \in 1..Len(positions') :
                    positions'[i].marketId = markets[adm].id
                      => positions'[i].status = "SETTLED"
      ]_vars

\* C3's case: a settled market with a position that was OPEN when it was
\* settled (it is priced at the outcome).
C3_Witness_SettledFromOpen ==
    \E i \in 1..Len(positions), k \in 1..Len(markets) :
        LET p == positions[i] IN
        /\ markets[k].id = p.marketId /\ markets[k].status = "SETTLED"
        /\ p.status = "SETTLED"
        /\ p.currentP = 100 * markets[k].outcome
        /\ p.currentP # markets[k].currentP


\* An Open Position request on market number sel, in either application.
OpenStep(sel, ticket) ==
    handleOpenPosition(sel, ticket)
      \/ \E user \in RunUsers : PyOpenPosition(user, sel, ticket)

\* C4: an Open Position request on a market that is not OPEN adds no position
\* and changes neither the markets nor the positions; every position that is
\* created is created on a market that is OPEN.
C4_OpenOnlyOnOpenMarket ==
    [][ /\ \A sel \in 1..Len(markets), ticket \in OrderTickets :
            (OpenStep(sel, ticket) /\ markets[sel].status # "OPEN")
              => UNCHANGED <<markets, positions>>
        /\ \A i \in (Len(positions) + 1)..Len(positions') :
            statusOf(markets, positions'[i].marketId) = "OPEN"
      ]_vars

\* C4's case: a position that is still priced at its entry on a market that
\* was settled at an outcome different from that entry, so that the position
\* was opened after the settlement.
C4_Witness_OpenedOnSettledMarket ==
    \E i \in 1..Len(positions), k \in 1..Len(markets) :
        LET p == positions[i] IN
        /\ markets[k].id = p.marketId /\ markets[k].status = "SETTLED"
        /\ p.status = "OPEN" /\ p.currentP = p.entryP /\ p.pnl = 0

\* C5: no step changes the status or the outcome of a market that is SETTLED;
\* in particular a second settlement of that market changes nothing of it.
C5_SettledMarketImmutable ==
    [][ \A k \in 1..Len(markets) :
            markets[k].status = "SETTLED"
              => /\ markets'[k].status = "SETTLED"
                 /\ markets'[k].outcome = markets[k].outcome
      ]_vars

\* C5's case: a market settled a second time with the opposite outcome: its
\* position was settled at outcome 1, the market now records outcome 0.
C5_Witness_OutcomeOverwritten ==
    \E i \in 1..Len(positions), k \in 1..Len(markets) :
        LET p == positions[i] IN
        /\ markets[k].id = p.marketId /\ markets[k].status = "SETTLED"
        /\ p.status = "SETTLED" /\ PricedAt(p, 100) /\ p.entryP # 100
        /\ p.currentP # markets[k].currentP
        /\ markets[k].outcome = 0

\* C6: no step changes any field of a position that is SETTLED; in particular
\* a further settlement of its market, with the same or another outcome.
C6_SettledPositionUnchanged ==
    [][ \A i \in 1..Len(positions) :
            positions[i].status = "SETTLED" => positions'[i] = positions[i]
      ]_vars

\* C6's case: a position settled at outcome 0 whose market has since been
\* settled again with outcome 1.
C6_Witness_ResettledOtherOutcome ==
    \E i \in 1..Len(positions), k \in 1..Len(markets) :
        LET p == positions[i] IN
        /\ markets[k].id = p.marketId /\ markets[k].status = "SETTLED"
        /\ p.status = "SETTLED" /\ PricedAt(p, 0) /\ p.entryP # 0
        /\ p.currentP # markets[k].currentP
        /\ markets[k].outcome = 1

\* C7: a settlement of a market turns each of its LIQUIDATED positions into
\* SETTLED and changes no other field of it: pnl, equity and current
\* probability stay as frozen at liquidation.
C7_LiquidatedKeepsValues ==
    [][ \A adm \in 1..Len(markets), o \in Outcomes :
            SettleStep(adm, o)
              => \A i \in 1..Len(positions) :
                    (/\ positions[i].marketId = markets[adm].id
                     /\ positions[i].status = "LIQUIDATED")
                      => positions'[i] = [positions[i] EXCEPT !.status = "SETTLED"]
      ]_vars

\* C7's case: the position liquidated at 0.40 with equity 0 is SETTLED, still
\* priced at 0.40, on a market settled with outcome 1.
C7_Witness_FrozenThenSettled ==
    \E i \in 1..Len(positions), k \in 1..Len(markets) :
        LET p == positions[i] IN
        /\ markets[k].id = p.marketId /\ markets[k].status = "SETTLED"
        /\ markets[k].outcome = 1
        /\ p.status = "SETTLED" /\ p.entryP = 50 /\ p.currentP = 40
        /\ p.pnl = -100000 /\ p.equity = 0

\* C8: a settlement of a market with outcome o leaves each position of it that
\* was OPEN with pnl = notional * (o - entry) * sign(side), equity = margin +
\* pnl (not floored at zero) and current probability o, whatever the market's
\* live probability was.  Instance: SHORT 500,000 at 10% margin, entry 0.41,
\* outcome 1, has pnl -295,000 and equity -245,000.
C8_OpenSettledAtOutcome ==
    [][ \A adm \in 1..Len(markets), o \in Outcomes :
            SettleStep(adm, o)
              => \A i \in 1..Len(positions) :
                    LET p == positions[i]
                        q == positions'[i]
                    IN  (p.marketId = markets[adm].id /\ p.status = "OPEN")
                          => /\ PricedAt(q, 100 * o)
                             /\ q.notional = p.notional /\ q.entryP = p.entryP
                             /\ q.side = p.side /\ q.imAmount = p.imAmount
                             /\ (/\ p.side = "SHORT" /\ p.notional = 500000
                                 /\ p.imAmount = 50000 /\ p.entryP = 41 /\ o = 1)
                                   => q.pnl = -295000 /\ q.equity = -245000
      ]_vars

\* C8's case: the instance, settled at outcome 1 with negative equity while
\* its market's live probability is 0.41.
C8_Witness_Instance ==
    \E i \in 1..Len(positions) :
        LET p == positions[i] IN
        /\ p.status = "SETTLED" /\ p.side = "SHORT" /\ p.notional = 500000
        /\ p.imAmount = 50000 /\ p.entryP = 41 /\ p.currentP = 100
        /\ p.pnl = -295000 /\ p.equity = -245000
        /\ priceOf(markets, p.marketId) = 41

\* C9: a settlement of a market leaves each position of it that was OPEN
\* SETTLED, also when its settlement equity is at most 5% of its margin, and
\* no later step, the recompute pass after the settlement included, takes a
\* SETTLED position to another status.
C9_SettlementWinsOverLiquidation ==
    [][ /\ \A adm \in 1..Len(markets), o \in Outcomes :
            SettleStep(adm, o)
              => \A i \in 1..Len(positions) :
                    (/\ positions[i].marketId = markets[adm].id
                     /\ positions[i].status = "OPEN")
                      => positions'[i].status = "SETTLED"
        /\ \A i \in 1..Len(positions) :
            positions[i].status = "SETTLED" => positions'[i].status = "SETTLED"
      ]_vars

\* C9's case: in the React application, after the recompute pass that follows
\* the settlement: a position settled from OPEN at outcome 0 whose equity is
\* below 5% of its margin, SETTLED.
C9_Witness_SettledBelowThreshold ==
    /\ app = "js" /\ ~effectPending
    /\ \E i \in 1..Len(positions), k \in 1..Len(markets) :
        LET p == positions[i] IN
        /\ markets[k].id = p.marketId /\ markets[k].status = "SETTLED"
        /\ markets[k].outcome = 0
        /\ p.status = "SETTLED" /\ p.side = "LONG" /\ PricedAt(p, 0)
        /\ p.entryP > 0 /\ AtOrBelowThreshold(p)

\* C10: pdPnl / pd_pnl return notional * (currentP - entryP) * sign(side),
\* computeEquity / compute_equity return margin + pnl, and the LONG and the
\* SHORT pnl for the same notional, entry and current probability are opposite.
\* The doubles returned are the decimal values to the unit, and the doubles of
\* the two sides are each other's negation exactly.
C10_PricingIdentity ==
    calc.by # "none"
      => /\ 100 * calc.pnlLong = calc.notional * (calc.currentP - calc.entryP)
         /\ 100 * calc.pnlShort = -(calc.notional * (calc.currentP - calc.entryP))
         /\ calc.equityLong = calc.imAmount + calc.pnlLong
         /\ calc.equityShort = calc.imAmount + calc.pnlShort
         /\ calc.pnlLong = -calc.pnlShort
         /\ calc.opposite

\* C10's case: the functions have been applied to a move of the probability,
\* and the two sides have nonzero, different pnl.
C10_Witness_Priced ==
    /\ calc.by # "none"
    /\ calc.currentP # calc.entryP
    /\ calc.pnlLong # 0 /\ calc.pnlLong # calc.pnlShort


\* C11: an Open Position request with notional <= 0 adds no position and
\* changes neither the markets nor the positions there are.
C11_NonPositiveNotionalRejected ==
    [][ \A sel \in 1..Len(markets), ticket \in OrderTickets :
            (ticket[2] <= 0 /\ OpenStep(sel, ticket))
              => UNCHANGED <<markets, positions>>
      ]_vars

\* C11's case: the Streamlit run that rejected an order with notional 0 on an
\* OPEN market while a position was in the ledger.
C11_Witness_RejectedWithLedger ==
    /\ notice = "Notional must be > 0."
    /\ Len(positions) > 0
    /\ \E k \in 1..Len(markets) : markets[k].status = "OPEN"


\* C12: in every state a render can observe, each OPEN position is priced at
\* the probability its market shows in that state: current probability, pnl
\* and equity correspond to the market's probability.  Every state of the
\* model is rendered: React renders after each state update, and so between
\* a handler's setMarkets and the recompute effect, which runs after that
\* render; a Streamlit run renders the ledger its previous run left.
C12_RenderSeesRecomputedLedger ==
    loaded =>
        \A i \in 1..Len(positions) :
            positions[i].status = "OPEN"
              => PricedAt(positions[i], priceOf(markets, positions[i].marketId))

\* C12's case: the render between a change of a market's probability and the
\* recompute effect, with an OPEN position of that market in the ledger.
C12_Witness_RenderBeforeEffect ==
    /\ app = "js" /\ effectPending
    /\ \E i \in 1..Len(positions) :
        /\ positions[i].status = "OPEN"
        /\ positions[i].currentP # priceOf(markets, positions[i].marketId)


\* A step of a refresh of market number adm whose fetch fails, in either
\* application: the click that starts the fetch and the .catch callback that
\* ends it, with any steps of other handlers between the two, in the React
\* application; the run of the button in the Streamlit application.
RefreshFailedStep(adm) ==
    \/ handleRefreshFromPolymarket(adm)
    \/ refreshCatch(Captured(markets[adm]))
    \/ /\ notice' = "Error refreshing from Polymarket"
       /\ \E user \in RunUsers : PyRefreshFailed(user, adm)

\* C13: a refresh whose fetch fails leaves every market (probability, status,
\* outcome) and every position exactly as it was: neither the request nor the
\* failure changes any of them.
C13_FailedRefreshChangesNothing ==
    [][ \A adm \in 1..Len(markets) :
            RefreshFailedStep(adm) => UNCHANGED <<markets, positions>>
      ]_vars

\* C13's case: the Streamlit run whose refresh failed, with an OPEN position
\* on a provider market in the ledger.
C13_Witness_FailedWithLedger ==
    /\ notice = "Error refreshing from Polymarket"
    /\ \E i \in 1..Len(positions), k \in 1..Len(markets) :
        /\ markets[k].id = positions[i].marketId
        /\ markets[k].source = "polymarket"
        /\ positions[i].status = "OPEN"


\* A refresh of market number adm answered with data, in either application:
\* the .then callback of a fetch requested for that market, or the run of
\* that user with the button pressed.
RefreshStepOf(user, adm, data) ==
    refreshThen(Captured(markets[adm]), data) \/ PyRefresh(user, adm, data)

RefreshStep(adm, data) == \E user \in RunUsers : RefreshStepOf(user, adm, data)

\* What the refresh of the market with that provider id finds in data: 0 if the
\* market is not among the markets fetched, else its place among them.
foundIn(data, polyId) ==
    IF app = "js" THEN byId(JsRefreshFetch[data], polyId)
    ELSE byId(PyRefreshFetch[data].selected, polyId)

\* The conversion of the market found at that place does not raise.
quotedIn(data, pm) ==
    app = "py" => ~polymarket_market_to_bube(PyRefreshFetch[data].selected[pm]).raised

\* The probability the provider gives for the market found at that place.
quoteIn(data, pm) ==
    IF app = "js"
    THEN polymarketToBube(JsRefreshFetch[data][pm]).currentP
    ELSE polymarket_market_to_bube(PyRefreshFetch[data].selected[pm]).bm.currentP

\* The step has the effect of a price update of market number adm to
\* probability p: only that market's probability changes, to p; its OPEN
\* positions are recomputed by the effect the change triggers (React) or in
\* the same run (Streamlit).  It is what the manual override does with its
\* clamped value.
PriceUpdateEffect(user, adm, p) ==
    /\ markets' = [markets EXCEPT ![adm].currentP = p]
    /\ IF app = "js"
       THEN effectPending' /\ positions' = positions
       ELSE positions' = update_positions_for_market(
                             markets', positionsTab(markets, positions, user),
                             markets[adm].id)

\* C14: a refresh that does not find its market among the markets fetched
\* changes no market and no position; a refresh that finds it, and converts
\* what it found, has the effect of a price update to the provider's
\* probability, which is the effect a manual override to that probability has.
C14_RefreshIsPriceUpdateOrNoOp ==
    [][ \A user \in RunUsers, adm \in 1..Len(markets), data \in FeedData :
            RefreshStepOf(user, adm, data)
              => LET pm == foundIn(data, markets[adm].polyId) IN
                 IF pm = 0 THEN UNCHANGED <<markets, positions>>
                 ELSE quotedIn(data, pm)
                        => PriceUpdateEffect(user, adm, quoteIn(data, pm))
      ]_vars

\* C14's case: the Streamlit run whose refresh did not find its market, in a
\* ledger where an earlier refresh had repriced a position from 0.50 to the
\* provider's 1.50.
C14_Witness_MissAfterHit ==
    /\ notice = "Matching Polymarket market not found"
    /\ \E i \in 1..Len(positions), k \in 1..Len(markets) :
        /\ markets[k].id = positions[i].marketId
        /\ markets[k].source = "polymarket" /\ markets[k].currentP = 150
        /\ positions[i].entryP = 50 /\ positions[i].currentP = 150


\* The candidate's outcomePrices is missing, unparsable or an empty array.
MalformedPrice(c) ==
    c.outcomePrices.kind # "array" \/ Len(c.outcomePrices.items) = 0

\* The initial load answered with data, in either application.
LoadStep(data) == Load(data) \/ PyInit(data)

\* C15: a candidate whose outcomePrices is missing, unparsable or empty yields
\* no market at load and no price update at refresh.
C15_MalformedPriceRejected ==
    [][ /\ \A data \in FeedData :
            LoadStep(data)
              => \A i \in 1..Len(markets'), k \in 1..Len(data) :
                    data[k].id = markets'[i].polyId => ~MalformedPrice(data[k])
        /\ \A adm \in 1..Len(markets), data \in FeedData :
            RefreshStep(adm, data)
              => ((\E k \in 1..Len(data) :
                      data[k].id = markets[adm].polyId /\ MalformedPrice(data[k]))
                    => markets' = markets)
      ]_vars

\* C15's case: the load was answered with market 1 at 0.50 and market 2 without
\* outcomePrices; both are in the market list, market 2 at probability 0.
C15_Witness_LoadedWithoutPrice ==
    /\ loaded /\ Len(markets) = 2 /\ positions = <<>>
    /\ markets[1].polyId = 1 /\ markets[1].currentP = 50
    /\ markets[2].polyId = 2 /\ markets[2].currentP = 0
    /\ app = "js" => effectPending


\* The candidate passes the filter: active, not closed, and its outcomes field
\* parses to a list of exactly two outcomes.
Eligible(c) ==
    c.active /\ ~c.closed /\ c.outcomes.kind = "array" /\ Len(c.outcomes.items) = 2

\* The first n eligible candidates of data, in the order of data.
FirstEligible(data, n) ==
    LET all == SelectSeq(data, Eligible) IN SubSeq(all, 1, Min(n, Len(all)))

\* The fetch has been made the way the applications make it: with the cap
\* alone, the keyword arguments of the Python function at their defaults.
FetchedByDefault ==
    calc.by = "js" \/ (calc.by = "py" /\ calc.require_yes_no /\ calc.only_open)

\* C16: the fetch does not fail, and it returns exactly the first maxMarkets
\* candidates that are active, not closed and have exactly two outcomes, in
\* provider order.
C16_IngestionFilter ==
    FetchedByDefault
      => /\ ~calc.raised
         /\ calc.selected = FirstEligible(calc.batch, calc.maxMarkets)

\* C16's case: a batch of three with an ineligible candidate between two
\* eligible ones and the cap at 1, fetched by the React application: only the
\* first candidate is returned.
C16_Witness_CapAndSkip ==
    /\ calc.by = "js" /\ calc.maxMarkets = 1 /\ Len(calc.batch) = 3
    /\ Eligible(calc.batch[1]) /\ ~Eligible(calc.batch[2]) /\ Eligible(calc.batch[3])
    /\ calc.selected = <<calc.batch[1]>>


\* The status changes the transition table allows.
StatusTransitions ==
    { <<"OPEN", "LIQUIDATED">>, <<"OPEN", "SETTLED">>, <<"LIQUIDATED", "SETTLED">> }

\* C17: in every step each position keeps its status or changes it along the
\* transition table, and every position the step adds is OPEN.
C17_StatusTransitionTable ==
    [][ /\ Len(positions') >= Len(positions)
        /\ \A i \in 1..Len(positions) :
              \/ positions'[i].status = positions[i].status
              \/ <<positions[i].status, positions'[i].status>> \in StatusTransitions
        /\ \A i \in (Len(positions) + 1)..Len(positions') :
              positions'[i].status = "OPEN"
      ]_vars

\* C17's case: a position that went OPEN, LIQUIDATED, SETTLED: it is SETTLED
\* with the probability of its liquidation, not the outcome, and its market
\* has since been given another probability.
C17_Witness_LiquidatedThenSettled ==
    \E i \in 1..Len(positions), k \in 1..Len(markets) :
        /\ markets[k].id = positions[i].marketId
        /\ markets[k].status = "SETTLED"
        /\ positions[i].status = "SETTLED"
        /\ AtOrBelowThreshold(positions[i])
        /\ positions[i].currentP # 100 * markets[k].outcome
        /\ markets[k].currentP # positions[i].currentP


\* C18: a market's outcome is set exactly when the market is SETTLED, and an
\* outcome that is set is 0 or 1.
C18_OutcomeIffSettled ==
    \A k \in 1..Len(markets) :
        /\ (markets[k].outcome # null) <=> (markets[k].status = "SETTLED")
        /\ markets[k].outcome # null => markets[k].outcome \in {0, 1}

\* C18's case: one market is SETTLED with outcome 1 and its position is
\* settled at 1.00, while another market is still OPEN and has no outcome.
C18_Witness_SettledBesideOpen ==
    \E i \in 1..Len(positions), k \in 1..Len(markets), j \in 1..Len(markets) :
        /\ markets[k].id = positions[i].marketId
        /\ markets[k].status = "SETTLED" /\ markets[k].outcome = 1
        /\ positions[i].status = "SETTLED" /\ positions[i].currentP = 100
        /\ markets[j].status = "OPEN" /\ markets[j].outcome = null


\* The fields of a position that are fixed at creation.
CreationFields(pos) ==
    <<pos.id, pos.marketId, pos.side, pos.notional, pos.imPct, pos.imAmount, pos.entryP>>

\* C19: in every step each position keeps its id, market, side, notional,
\* margin percentage, margin amount and entry probability; a position the
\* step adds has margin amount notional * margin percentage and the entry
\* probability its market had before the step.
C19_CreationFieldsFixed ==
    [][ /\ Len(positions') >= Len(positions)
        /\ \A i \in 1..Len(positions) :
              CreationFields(positions'[i]) = CreationFields(positions[i])
        /\ \A i \in (Len(positions) + 1)..Len(positions') :
              /\ 100 * positions'[i].imAmount = positions'[i].notional * positions'[i].imPct
              /\ \E k \in 1..Len(markets) :
                    /\ markets[k].id = positions'[i].marketId
                    /\ markets[k].currentP = positions'[i].entryP
      ]_vars

\* C19's case: a position opened at 0.50 (notional 1,000,000 at 10%) that has
\* been repriced and then settled at another probability.
C19_Witness_SettledAwayFromEntry ==
    \E i \in 1..Len(positions) :
        /\ positions[i].status = "SETTLED"
        /\ positions[i].entryP = 50 /\ positions[i].currentP # 50
        /\ positions[i].notional = 1000000 /\ positions[i].imAmount = 100000
        /\ positions[i].pnl # 0


\* C20: every market's probability is within [0, 1].
C20_ProbabilityInUnitInterval ==
    \A k \in 1..Len(markets) : markets[k].currentP \in 0..100

\* C20's case: a market whose probability came from the provider as 1.50, with
\* an OPEN position entered at that probability.
C20_Witness_ProviderAboveOne ==
    \E i \in 1..Len(positions), k \in 1..Len(markets) :
        /\ markets[k].source = "polymarket" /\ markets[k].currentP = 150
        /\ positions[i].marketId = markets[k].id
        /\ positions[i].status = "OPEN" /\ positions[i].entryP = 150



\* The operation and its recompute pass have completed: the React effect is
\* not pending; a Streamlit run is one step.
PassCompleted == loaded /\ (app = "js" => ~effectPending)

\* C21: once the operation and its recompute pass have completed, the
\* currentP of every OPEN position is the probability of its market.
C21_OpenMirrorsMarket ==
    PassCompleted
      => \A i \in 1..Len(positions) :
            positions[i].status = "OPEN"
              => positions[i].currentP = priceOf(markets, positions[i].marketId)

\* C21's case: after a completed pass, an OPEN position that has followed its
\* market away from its entry probability.
C21_Witness_OpenFollowedMarket ==
    /\ PassCompleted
    /\ \E i \in 1..Len(positions) :
        /\ positions[i].status = "OPEN"
        /\ positions[i].currentP # positions[i].entryP
        /\ positions[i].currentP = priceOf(markets, positions[i].marketId)
        /\ positions[i].pnl # 0



\* C22: between completed operations no OPEN position is at or below the
\* liquidation threshold: its equity exceeds 5% of its margin, and so is
\* positive.  The equity and the threshold are the doubles the program
\* compares.
C22_NoOpenAtOrBelowThreshold ==
    PassCompleted
      => \A i \in 1..Len(positions) :
            positions[i].status = "OPEN"
              => /\ ~AtOrBelowThreshold(positions[i])
                 /\ Threshold(positions[i]).positive

\* C22's case: after a completed pass, an OPEN position that has lost all but
\* 5% of its margin: SHORT 500,000 at 20% margin, entered at 0.81, recomputed
\* at 1.00.  In decimals its equity is 5,000, which is the threshold; the
\* double the program computes lies above the double of the threshold, and
\* the position is OPEN.
C22_Witness_OpenAtDecimalTie ==
    /\ PassCompleted
    /\ \E i \in 1..Len(positions) :
        LET p == positions[i] IN
        /\ p.status = "OPEN" /\ p.side = "SHORT" /\ p.notional = 500000
        /\ p.imAmount = 100000 /\ p.entryP = 81 /\ p.currentP = 100
        /\ p.pnl = -95000 /\ p.equity = 5000
        /\ 100 * p.equity = 5 * p.imAmount



\* C23: in every state every position, whatever its status, has
\* pnl = notional * (currentP - entryP) * sign(side) and equity = margin + pnl
\* for its own stored currentP.
C23_StoredValuesConsistent ==
    \A i \in 1..Len(positions) : PricedAt(positions[i], positions[i].currentP)

\* C23's case: a position frozen at a probability that is neither its entry
\* nor its market's, with the loss of that probability and no margin left.
C23_Witness_FrozenButConsistent ==
    \E i \in 1..Len(positions) :
        LET p == positions[i] IN
        /\ p.status \in {"LIQUIDATED", "SETTLED"}
        /\ p.currentP # p.entryP /\ p.currentP # priceOf(markets, p.marketId)
        /\ p.pnl < 0 /\ p.equity <= 0
        /\ 100 * p.pnl = p.notional * (p.currentP - p.entryP) * sign(p.side)



\* C24: every position whose market is SETTLED is SETTLED.
C24_SettledMarketHasOnlySettledPositions ==
    \A i \in 1..Len(positions) :
        statusOf(markets, positions[i].marketId) = "SETTLED"
          => positions[i].status = "SETTLED"

\* C24's case: a market that was settled, then a position opened on it in the
\* React application and repriced by a later price update: the position is
\* not SETTLED and carries the pnl of the update.
C24_Witness_LivePositionOnSettledMarket ==
    /\ app = "js" /\ ~effectPending
    /\ \E i \in 1..Len(positions) :
        /\ statusOf(markets, positions[i].marketId) = "SETTLED"
        /\ positions[i].status # "SETTLED"
        /\ positions[i].pnl # 0
        /\ positions[i].currentP = priceOf(markets, positions[i].marketId)



\* C25: the callback of a refresh that was in flight while other operations
\* ran changes nothing but the probability of the market it was requested
\* for, as that market is now: its status and outcome and every other market
\* are kept, and no position changes in that step; the recompute it triggers
\* changes no LIQUIDATED or SETTLED position.
C25_LateResponseOverwritesOnlyPrice ==
    [][ /\ \A adminMarket \in BagToSet(inflight), data \in ProviderData :
            refreshThen(adminMarket, data)
              => /\ Len(markets') = Len(markets)
                 /\ \A k \in 1..Len(markets) :
                       IF markets[k].id = adminMarket.id
                       THEN markets'[k] = [markets[k] EXCEPT !.currentP = markets'[k].currentP]
                       ELSE markets'[k] = markets[k]
                 /\ positions' = positions
        /\ RecomputeEffect
              => \A i \in 1..Len(positions) :
                    positions[i].status \in {"LIQUIDATED", "SETTLED"}
                      => positions'[i] = positions[i]
      ]_vars

\* C25's case: a market was loaded at 0.50 and settled before the response of
\* a refresh of it arrived (its position, entered at 0.50, is priced at the
\* outcome); the response has repriced the market to 0.40, which no other
\* handler gives a settled market, and the market is still SETTLED, with its
\* outcome.
C25_Witness_SettledDuringFetch ==
    /\ app = "js" /\ inflight = EmptyBag
    /\ \E k \in 1..Len(markets), i \in 1..Len(positions) :
        /\ markets[k].status = "SETTLED" /\ markets[k].currentP = 40
        /\ markets[k].outcome = 1
        /\ positions[i].marketId = markets[k].id
        /\ positions[i].status = "SETTLED" /\ positions[i].entryP = 50
        /\ positions[i].currentP = 100 * markets[k].outcome



\* The step is a manual override, a refresh or a settlement of market number
\* adm, in either application.
TouchesMarket(adm) ==
    \/ \E p \in InFlightManualProbs \cup SliderProbs :
          handleManualProbApply(adm, p)
            \/ \E user \in RunUsers : PyManualProb(user, adm, p)
    \/ \E data \in ProviderData : RefreshStep(adm, data)
    \/ \E o \in InFlightOutcomes :
          handleSettle(adm, o) \/ \E user \in RunUsers : PySettle(user, adm, o)

\* The step leaves every market but the one with that id, and every position
\* of every other market, as they were.
Isolated(id) ==
    /\ Len(markets') = Len(markets) /\ Len(positions') = Len(positions)
    /\ \A k \in 1..Len(markets) : markets[k].id # id => markets'[k] = markets[k]
    /\ \A i \in 1..Len(positions) :
          positions[i].marketId # id => positions'[i] = positions[i]

\* C26: a manual override, refresh or settlement of a market changes no other
\* market and no position of another market; the recompute effect it triggers
\* changes no position whose market has not moved; opening a position changes
\* no market and no existing position.
C26_PerMarketIsolation ==
    [][ /\ \A adm \in 1..Len(markets) :
            Isolated(markets[adm].id) \/ ~TouchesMarket(adm)
        /\ RecomputeEffect
              => \A i \in 1..Len(positions) :
                    positions[i].currentP = priceOf(markets, positions[i].marketId)
                      => positions'[i] = positions[i]
        /\ \A sel \in 1..Len(markets), ticket \in FeedTickets :
            \/ /\ markets' = markets
               /\ \A i \in 1..Len(positions) : positions'[i] = positions[i]
            \/ ~OpenStep(sel, ticket)
      ]_vars

\* C26's case: a Streamlit ledger of two positions on two markets.  The second
\* was opened beside the first, and its market was then set to 1.00: it is
\* priced at 1.00 with a gain, and the first, whose market is not at 1.00, is
\* still at its entry with pnl 0.
C26_Witness_OpenedBesideThenUpdated ==
    /\ app = "py" /\ notice = "Updated probability" /\ Len(positions) = 2
    /\ \E a \in 1..Len(markets), b \in 1..Len(markets) :
        /\ a # b
        /\ markets[a].currentP = 100 /\ markets[b].currentP # 100
        /\ positions[2].marketId = markets[a].id
        /\ positions[2].currentP = 100 /\ positions[2].pnl > 0
        /\ positions[1].marketId = markets[b].id
        /\ positions[1].status = "OPEN" /\ positions[1].pnl = 0
        /\ positions[1].currentP = markets[b].currentP



\* The updater of the recompute effect applied to a ledger.
effectPass(ms, ps) ==
    IF Len(ms) = 0 THEN ps
    ELSE LET f(pos) == recomputePosition(ms, pos) IN Map(f, ps)

\* The probabilities a market is moved to before the pass is applied twice.
RecomputeProbs == {0, 40, 50, 62, 100}

\* C27: for the ledger of every reachable state and every probability one of
\* its markets may be given, the recompute pass applied twice gives what it
\* gives applied once (the React effect; update_positions_for_market; the
\* Positions tab); and once a pass has completed, running it again changes
\* nothing.
C27_RecomputeIdempotent ==
    /\ \A adm \in 1..Len(markets), p \in RecomputeProbs :
          LET ms == [markets EXCEPT ![adm].currentP = p]
              id == markets[adm].id
              jsOnce == effectPass(ms, positions)
              pyOnce == update_positions_for_market(ms, positions, id)
          IN  IF app = "js" THEN effectPass(ms, jsOnce) = jsOnce
              ELSE /\ update_positions_for_market(ms, pyOnce, id) = pyOnce
                   /\ \A user \in RunUsers :
                         LET tabOnce == positionsTab(ms, positions, user)
                         IN  positionsTab(ms, tabOnce, user) = tabOnce
    /\ PassCompleted
          => IF app = "js" THEN effectPass(markets, positions) = positions
             ELSE \A user \in RunUsers :
                     positionsTab(markets, positions, user) = positions

\* C27's case: the React state where the market has moved and the effect has
\* not run: the first pass liquidates an OPEN position, the second changes
\* nothing.
C27_Witness_FirstPassLiquidates ==
    /\ app = "js" /\ effectPending
    /\ LET once == effectPass(markets, positions) IN
       /\ \E i \in 1..Len(positions) :
             positions[i].status = "OPEN" /\ once[i].status = "LIQUIDATED"
       /\ effectPass(markets, once) = once

====
